---------------------------- MODULE Spec2Model ----------------------------
(***************************************************************************)
(* A model of the CourseAI-Agent backend core:                             *)
(*   - student_memory.py   MemoryNode / StudentMemoryTracker (SM-2)        *)
(*   - rag_engine.py       GraphRAG (vector index + knowledge graph)       *)
(*   - session_manager.py  CourseSession (load / serve / save lifecycle)   *)
(*                                                                         *)
(* Numbers.  easiness_factor is kept in hundredths (2.5 is 250), memory    *)
(* strength in thousandths (1.0 is 1000), datetimes in whole days.         *)
(* Optional values are << >> (None) or <<v>>.  A Python dict is a sequence *)
(* of <<key, value>> pairs in insertion order with distinct keys.          *)
(***************************************************************************)
EXTENDS Integers, Sequences, FiniteSets, TLC

VARIABLES
    now,               \* datetime.now(), in days
    \* ---- one StudentMemoryTracker (student_memory.py) ----
    knowledge_nodes,   \* StudentMemoryTracker.knowledge_nodes
    created,           \* history: concepts whose MemoryNode record_quiz_result created
    mem_ret,           \* history: the last call on the tracker and what it returned
    \* ---- one GraphRAG (rag_engine.py) ----
    chunks,            \* GraphRAG.chunks
    index,             \* GraphRAG.index: the vectors of the FAISS IndexFlatL2, in order
    knowledge_graph,   \* GraphRAG.knowledge_graph: [nodes (in order), edges (data by pair)]
    rag_ret,           \* history: the last call on the retriever and what it returned
    \* ---- one CourseSession (session_manager.py) ----
    student_ids,       \* CourseSession.student_ids, the roster given to the constructor
    is_active,         \* CourseSession.is_active
    rag_engine,        \* CourseSession.rag_engine: None or the GraphRAG
    student_trackers,  \* CourseSession.student_trackers: dict student_id -> tracker
    stats,             \* CourseSession.stats
    start_time,        \* CourseSession.start_time
    end_time,          \* CourseSession.end_time
    files,             \* the files <students_dir>/<student_id>.json
    ended,             \* history: end_session has completed on this instance
    starts,            \* history: number of start_session calls
    ses_ret,           \* history: the last call on the session and what it returned
    callers,           \* per learner, a caller inside update_student_memory: its position and locals
    threads,           \* per thread, the call it is inside: its position and locals
    accepted           \* history: per learner, the <<concept, score>> of the updates that
                       \* returned since the session was started from INACTIVE

mem_vars == <<knowledge_nodes, created, mem_ret>>
rag_vars == <<chunks, index, knowledge_graph, rag_ret>>
ses_vars == <<student_ids, is_active, rag_engine, student_trackers, stats,
              start_time, end_time, files, ended, starts, ses_ret, callers, threads,
              accepted>>
vars == <<now, mem_vars, rag_vars, ses_vars>>

(***************************************************************************)
(* Bounds of the model.                                                    *)
(***************************************************************************)
MaxTime == 2        \* the clock stays within 0..MaxTime
MaxReviews == 3     \* review_history entries of one tracker, record_quiz_result alone
MaxReadReviews == 2 \* review_history entries of one tracker, with the reads and the clock
MaxEdges == 3       \* triplets added to one knowledge graph
MaxVectors == 3     \* vectors added to one index
MaxStarts == 2      \* start_session calls on one session
MaxQueries == 1     \* counted query_knowledge calls on one session
MaxUpdates == 1     \* counted update_student_memory calls on one session
MaxCalls == 2       \* update_student_memory calls of one concurrent caller
MaxSessionDays == 1 \* the clock stays within 0..MaxSessionDays while a session is driven

Concepts == {"c1", "c2"}
Scores == 0..5

None == << >>
Some(v) == <<v>>

Max(a, b) == IF a >= b THEN a ELSE b
Min(a, b) == IF a <= b THEN a ELSE b

(***************************************************************************)
(* Python dict, insertion ordered.                                         *)
(***************************************************************************)
DictKeys(d) == [i \in 1..Len(d) |-> d[i][1]]
DictKeySet(d) == {d[i][1] : i \in 1..Len(d)}
DictHas(d, k) == \E i \in 1..Len(d) : d[i][1] = k
DictPos(d, k) == CHOOSE i \in 1..Len(d) : d[i][1] = k
DictGet(d, k) == d[DictPos(d, k)][2]
DictPut(d, k, v) ==
    IF DictHas(d, k) THEN [d EXCEPT ![DictPos(d, k)] = <<k, v>>]
    ELSE Append(d, <<k, v>>)
DictValues(d) == [i \in 1..Len(d) |-> d[i][2]]

(***************************************************************************)
(* student_memory.py : MemoryNode                                          *)
(***************************************************************************)
InitEF == 250       \* easiness_factor = 2.5
MinEF == 130        \* max(1.3, ...)
One == 1000         \* the float 1.0 of a memory strength

MemoryNode ==
    [ easiness_factor |-> InitEF,
      interval        |-> 1,
      repetitions     |-> 0,
      last_review     |-> None,
      next_review     |-> None,
      memory_strength |-> 0,
      review_history  |-> << >> ]

\* Python 3 round(n / d) for n >= 0, d > 0: to nearest, halves to even.
Round(n, d) ==
    LET q == n \div d
        r == n % d
    IN  IF 2 * r < d THEN q
        ELSE IF 2 * r > d THEN q + 1
        ELSE IF q % 2 = 0 THEN q ELSE q + 1

(***************************************************************************)
(* math.exp in fixed point.  ExpNeg(xm) is 1000 * exp(-xm / 1000) for      *)
(* xm >= 0: e^-k from a table, the fraction by its Taylor series carried   *)
(* in millionths.                                                          *)
(***************************************************************************)
EPowNeg == <<1000000, 367879, 135335, 49787, 18316, 6738, 2479, 912, 335, 123, 45, 17, 6, 2, 1>>

RECURSIVE TaylorSum(_, _, _, _)
\* sum of the terms n.. of exp(-r/1000) in millionths; term is term n-1's size
TaylorSum(r, n, term, sign) ==
    IF term = 0 THEN 0
    ELSE LET t == (term * r) \div (1000 * n)
         IN  sign * t + TaylorSum(r, n + 1, t, 0 - sign)

ExpFrac(r) == 1000000 + TaylorSum(r, 1, 1000000, -1)

ExpNeg(xm) ==
    LET k == xm \div 1000
        r == xm % 1000
    IN  IF k + 1 > Len(EPowNeg) THEN 0
        ELSE (EPowNeg[k + 1] * (ExpFrac(r) \div 1000) + 500000) \div 1000000

\* 1000 * exp(-num / den), den > 0; num may be negative (a clock set back).
Exp(num, den) ==
    IF num >= 0 THEN ExpNeg((1000 * num) \div den)
    ELSE LET e == ExpNeg((1000 * (0 - num)) \div den)
         IN  IF e = 0 THEN 1000000 ELSE (One * One) \div e

(***************************************************************************)
(* student_memory.py : StudentMemoryTracker                                *)
(***************************************************************************)
\* _calculate_memory_strength at time t
CalculateMemoryStrengthNoClamp(node, t) ==
    IF node.last_review = None THEN 0
    ELSE LET elapsed_days == t - node.last_review[1]
             stability == node.interval * node.easiness_factor   \* in hundredths
         IN  Exp(100 * elapsed_days, stability)

CalculateMemoryStrength(node, t) ==
    IF node.last_review = None THEN 0
    ELSE LET elapsed_days == t - node.last_review[1]
             stability == node.interval * node.easiness_factor   \* in hundredths
             retention == Exp(100 * elapsed_days, stability)
         IN  Max(0, Min(One, retention))

\* EF + (0.1 - (5 - q) * (0.08 + (5 - q) * 0.02)), in hundredths
\* a delta that rewards every score alike
EFDeltaFlat(score) == 10

EFDelta(score) == 10 - (5 - score) * (8 + (5 - score) * 2)

NewEasinessNoFloor(ef, score) == ef + EFDelta(score)

NewEasiness(ef, score) == Max(MinEF, ef + EFDelta(score))

\* the SM-2 branch of record_quiz_result: <<interval, repetitions>>
Sm2NoReset(node, score) ==
    IF score >= 3
    THEN << IF node.repetitions = 0 THEN 1
            ELSE IF node.repetitions = 1 THEN 6
            ELSE Round(node.interval * node.easiness_factor, 100),
            node.repetitions + 1 >>
    ELSE << 1, node.repetitions >>

Sm2EasinessFirst(node, score) ==
    IF score >= 3
    THEN << IF node.repetitions = 0 THEN 1
            ELSE IF node.repetitions = 1 THEN 6
            ELSE Round(node.interval * NewEasiness(node.easiness_factor, score), 100),
            node.repetitions + 1 >>
    ELSE << 1, 0 >>

\* a failure branch that takes one repetition back instead of resetting
Sm2StepBackOnFailure(node, score) ==
    IF score >= 3
    THEN << IF node.repetitions = 0 THEN 1
            ELSE IF node.repetitions = 1 THEN 6
            ELSE Round(node.interval * node.easiness_factor, 100),
            node.repetitions + 1 >>
    ELSE << 1, node.repetitions - 1 >>

\* a success branch that stops counting at two
Sm2CountsToTwo(node, score) ==
    IF score >= 3
    THEN << IF node.repetitions = 0 THEN 1
            ELSE IF node.repetitions = 1 THEN 6
            ELSE Round(node.interval * node.easiness_factor, 100),
            Min(node.repetitions + 1, 2) >>
    ELSE << 1, 0 >>

Sm2(node, score) ==
    IF score >= 3
    THEN << IF node.repetitions = 0 THEN 1
            ELSE IF node.repetitions = 1 THEN 6
            ELSE Round(node.interval * node.easiness_factor, 100),
            node.repetitions + 1 >>
    ELSE << 1, 0 >>

\* an update that dates the next review from the interval the node had
ReviewNodeOldInterval(node, score, t) ==
    LET sm == Sm2(node, score)
        n1 == [node EXCEPT !.interval = sm[1],
                           !.repetitions = sm[2],
                           !.easiness_factor = NewEasiness(node.easiness_factor, score),
                           !.last_review = Some(t),
                           !.next_review = Some(t + node.interval)]
        n2 == [n1 EXCEPT !.memory_strength = CalculateMemoryStrength(n1, t)]
    IN  [n2 EXCEPT !.review_history =
            Append(@, [time |-> t, score |-> score,
                       strength |-> n2.memory_strength, interval |-> n2.interval])]

\* record_quiz_result's update of one node at time t
ReviewNode(node, score, t) ==
    LET sm == Sm2(node, score)
        n1 == [node EXCEPT !.interval = sm[1],
                           !.repetitions = sm[2],
                           !.easiness_factor = NewEasiness(node.easiness_factor, score),
                           !.last_review = Some(t),
                           !.next_review = Some(t + sm[1])]
        n2 == [n1 EXCEPT !.memory_strength = CalculateMemoryStrength(n1, t)]
    IN  [n2 EXCEPT !.review_history =
            Append(@, [time |-> t, score |-> score,
                       strength |-> n2.memory_strength, interval |-> n2.interval])]

\* a record_quiz_result that reviews every node the tracker holds
RecordQuizResultAll(nodes, concept, score, t) ==
    LET node == IF DictHas(nodes, concept) THEN DictGet(nodes, concept) ELSE MemoryNode
        all == [ i \in 1..Len(nodes) |-> << nodes[i][1], ReviewNode(nodes[i][2], score, t) >> ]
    IN  DictPut(all, concept, ReviewNode(node, score, t))

\* knowledge_nodes after record_quiz_result(concept, score) at time t
RecordQuizResult(nodes, concept, score, t) ==
    LET node == IF DictHas(nodes, concept) THEN DictGet(nodes, concept) ELSE MemoryNode
    IN  DictPut(nodes, concept, ReviewNode(node, score, t))

\* what record_quiz_result returns, from the updated dict
RecordReturn(nodes, concept) ==
    LET node == DictGet(nodes, concept)
    IN  [ concept       |-> concept,
          new_strength  |-> node.memory_strength,
          next_review   |-> node.next_review,
          interval_days |-> node.interval,
          total_reviews |-> Len(node.review_history) ]

\* the loop "strength = self._calculate_memory_strength(node); node.memory_strength = strength"
RefreshStrengths(nodes, t) ==
    [i \in 1..Len(nodes) |->
        <<nodes[i][1], [nodes[i][2] EXCEPT !.memory_strength = CalculateMemoryStrength(nodes[i][2], t)]>>]

\* (datetime.now() - node.last_review).days if node.last_review else 999
DaysSinceReview(node, t) ==
    IF node.last_review = None THEN 999 ELSE t - node.last_review[1]

\* node.next_review and datetime.now() >= node.next_review
PastDue(node, t) == node.next_review # None /\ t >= node.next_review[1]

WeakEntry(concept, node, t) ==
    LET strength == CalculateMemoryStrength(node, t)
    IN  [ concept           |-> concept,
          strength          |-> strength,
          priority          |-> One - strength,
          next_review       |-> node.next_review,
          days_since_review |-> DaysSinceReview(node, t) ]

\* a key that leaves days_since_review out
KeyGreaterPriorityOnly(a, b) == a.priority > b.priority

\* key=(priority, days_since_review), reverse=True: a comes strictly before b
KeyGreater(a, b) ==
    \/ a.priority > b.priority
    \/ a.priority = b.priority /\ a.days_since_review > b.days_since_review

\* list.sort(key=..., reverse=True) is stable: x goes after every entry not smaller
InsertDesc(sorted, x) ==
    LET n == Cardinality({i \in 1..Len(sorted) : ~KeyGreater(x, sorted[i])})
    IN  SubSeq(sorted, 1, n) \o <<x>> \o SubSeq(sorted, n + 1, Len(sorted))

RECURSIVE SortDesc(_)
SortDesc(s) ==
    IF s = << >> THEN << >>
    ELSE InsertDesc(SortDesc(SubSeq(s, 1, Len(s) - 1)), s[Len(s)])

Take(s, n) == SubSeq(s, 1, Min(n, Len(s)))

RECURSIVE Filter(_, _)
\* the entries of s with keep[i], in order
Filter(s, keep) ==
    IF s = << >> THEN << >>
    ELSE LET rest == Filter(SubSeq(s, 1, Len(s) - 1), keep)
         IN  IF Len(s) \in keep THEN Append(rest, s[Len(s)]) ELSE rest

\* the list get_concepts_to_review returns at time t
ConceptsToReview(nodes, threshold, limit, t) ==
    LET all == [i \in 1..Len(nodes) |-> WeakEntry(nodes[i][1], nodes[i][2], t)]
        keep == {i \in 1..Len(nodes) :
                    all[i].strength < threshold \/ PastDue(nodes[i][2], t)}
    IN  Take(SortDesc(Filter(all, keep)), limit)

\* the list get_mastered_concepts returns at time t
MasteredConcepts(nodes, threshold, t) ==
    Filter(DictKeys(nodes),
           {i \in 1..Len(nodes) : CalculateMemoryStrength(nodes[i][2], t) >= threshold})

RECURSIVE SumSeq(_)
SumSeq(s) == IF s = << >> THEN 0 ELSE s[Len(s)] + SumSeq(SubSeq(s, 1, Len(s) - 1))

\* the dict get_learning_progress returns at time t (floats as <<numerator, denominator>>)
LearningProgress(nodes, t) ==
    LET total == Len(nodes)
        strengths == [i \in 1..total |-> CalculateMemoryStrength(nodes[i][2], t)]
        mastered == Cardinality({i \in 1..total : strengths[i] >= 800})
        weak == Cardinality({i \in 1..total : strengths[i] < 800 /\ strengths[i] < 300})
        needs_review == Cardinality({i \in 1..total : PastDue(nodes[i][2], t)})
    IN  IF total = 0
        THEN [ total_concepts |-> 0, average_strength |-> <<0, 1>>, mastered_count |-> 0,
               weak_count |-> 0, needs_review |-> 0 ]
        ELSE [ total_concepts      |-> total,
               average_strength    |-> <<SumSeq(strengths), total>>,
               mastered_count      |-> mastered,
               mastered_percentage |-> <<mastered * 100, total>>,
               weak_count          |-> weak,
               weak_percentage     |-> <<weak * 100, total>>,
               needs_review        |-> needs_review ]

(***************************************************************************)
(* The tracker on its own: the calls of StudentMemoryTracker on one        *)
(* instance, the clock moving between them.                                *)
(***************************************************************************)
\* <<threshold, limit>> of get_concepts_to_review: the defaults, a short list,
\* and a threshold above every strength
ReviewParams == {<<300, 10>>, <<800, 1>>, <<1100, 10>>}
\* threshold of get_mastered_concepts: the default
MasteredThreshold == 800
\* the scores the tracker is driven with where the clock and the reads matter
ReadScores == {0, 5}

\* a tracker as from_dict builds it from a file: empty, holding a node that was
\* never reviewed (a dict with the concept only), or holding reviewed nodes
LoadedTrackers ==
    { << >>,
      << <<"c1", MemoryNode>> >>,
      RecordQuizResult(RecordQuizResult(<< >>, "c1", 5, 0), "c1", 4, 0) }

TotalReviews(nodes) == SumSeq([i \in 1..Len(nodes) |-> Len(nodes[i][2].review_history)])

record_quiz_result(concept, score) ==
    /\ knowledge_nodes' = RecordQuizResult(knowledge_nodes, concept, score, now)
    /\ created' = IF DictHas(knowledge_nodes, concept) THEN created ELSE created \cup {concept}
    /\ mem_ret' = [ op |-> "record_quiz_result", score |-> score,
                    value |-> RecordReturn(knowledge_nodes', concept) ]
    /\ UNCHANGED now

get_concepts_to_review(threshold, limit) ==
    /\ knowledge_nodes' = RefreshStrengths(knowledge_nodes, now)
    /\ mem_ret' = [ op |-> "get_concepts_to_review", threshold |-> threshold, limit |-> limit,
                    value |-> ConceptsToReview(knowledge_nodes, threshold, limit, now) ]
    /\ UNCHANGED <<now, created>>

get_mastered_concepts(threshold) ==
    /\ knowledge_nodes' = RefreshStrengths(knowledge_nodes, now)
    /\ mem_ret' = [ op |-> "get_mastered_concepts", threshold |-> threshold,
                    value |-> MasteredConcepts(knowledge_nodes, threshold, now) ]
    /\ UNCHANGED <<now, created>>

get_learning_progress ==
    /\ knowledge_nodes' = RefreshStrengths(knowledge_nodes, now)
    /\ mem_ret' = [ op |-> "get_learning_progress",
                    value |-> LearningProgress(knowledge_nodes, now) ]
    /\ UNCHANGED <<now, created>>

\* the wall clock moves on
Tick ==
    /\ now < MaxTime
    /\ now' = now + 1

\* datetime.now() is the local wall clock: it can be set back
ClockSetBack ==
    /\ now > 0
    /\ now' = now - 1

\* the tracker before any call of this run
TrackerInit(loaded) ==
    /\ knowledge_nodes \in loaded
    /\ created = {}
    /\ mem_ret = [op |-> "none"]

(***************************************************************************)
(* rag_engine.py : GraphRAG.  A string is a sequence of tokens, so that    *)
(* "x in text" is the substring test; an entity label is a string.         *)
(***************************************************************************)
CNN == <<"CNN">>
pooling == <<"pooling">>
dimension == <<"dimension">>
layer == <<"layer">>
Entities == {CNN, pooling, dimension, layer}
Relations == {"uses", "reduces"}

\* a chunk parse_pdf / a caller hands over: one sentence "head relation tail"
Chunk(head, relation, tail) ==
    [ text |-> head \o <<relation>> \o tail,
      page |-> IF relation = "uses" THEN 1 ELSE 2,
      source |-> "test.pdf" ]

\* the relation the material states between two entities
Stated(head, tail) == IF tail = dimension THEN "reduces" ELSE "uses"

\* one chunk per ordered pair of entities, and one that states a second
\* relation for a pair
ChunkPool ==
    { Chunk(e[1], Stated(e[1], e[2]), e[2]) : e \in { x \in Entities \X Entities : x[1] # x[2] } } \cup
    { Chunk(CNN, "reduces", pooling) }

\* material about more entities than graph_search returns: a hub that "uses"
\* a1 .. a11, a1 using b in the second sentence; and two one-sentence chunks
\* that hang c below b and below a2
Leaves == << "a1", "a2", "a3", "a4", "a5", "a6", "a7", "a8", "a9", "a10", "a11" >>

RECURSIVE HubSentences(_)
HubSentences(n) ==
    IF n = 0 THEN << >>
    ELSE HubSentences(n - 1) \o << "hub", "uses", Leaves[n] >>
         \o (IF n = 1 THEN << "a1", "uses", "b" >> ELSE << >>)

WideChunks ==
    { [ text |-> HubSentences(Len(Leaves)), page |-> 1, source |-> "test.pdf" ],
      Chunk(<<"b">>, "uses", <<"c">>),
      Chunk(<<"a2">>, "uses", <<"c">>) }

WideEntities == { <<"hub">>, <<"b">>, <<"c">> } \cup { <<Leaves[i]>> : i \in 1..Len(Leaves) }

\* the LLM behind extract_triplets, when it answers: the sentences of the
\* text as (head, relation, tail)
LlmTriplets(text) ==
    [ i \in 1..(Len(text) \div 3) |-> << <<text[3 * i - 2]>>, text[3 * i - 1], <<text[3 * i]>> >> ]

\* extract_triplets: the answer, or [] when the call or the parse failed
ExtractTriplets(text, failed) == IF failed THEN << >> ELSE LlmTriplets(text)

EmptyGraph == [ nodes |-> << >>, edges |-> << >> ]

SeqSet(s) == { s[i] : i \in 1..Len(s) }

\* an add_edge that leaves the attributes of an existing edge alone
AddEdgeFirstWins(kg, head, tail, relation, page) ==
    LET n1 == IF head \in SeqSet(kg.nodes) THEN kg.nodes ELSE Append(kg.nodes, head)
        n2 == IF tail \in SeqSet(n1) THEN n1 ELSE Append(n1, tail)
        data == [ relation |-> relation, source_page |-> page ]
    IN  [ nodes |-> n2,
          edges |-> [ e \in DOMAIN kg.edges \cup {<<head, tail>>} |->
                        IF e \in DOMAIN kg.edges THEN kg.edges[e] ELSE data ] ]

\* nx.DiGraph.add_edge(head, tail, relation=..., source_page=...)
AddEdge(kg, head, tail, relation, page) ==
    LET n1 == IF head \in SeqSet(kg.nodes) THEN kg.nodes ELSE Append(kg.nodes, head)
        n2 == IF tail \in SeqSet(n1) THEN n1 ELSE Append(n1, tail)
        data == [ relation |-> relation, source_page |-> page ]
    IN  [ nodes |-> n2,
          edges |-> [ e \in DOMAIN kg.edges \cup {<<head, tail>>} |->
                        IF e = <<head, tail>> THEN data ELSE kg.edges[e] ] ]

RECURSIVE AddTriplets(_, _, _)
\* "for head, relation, tail in triplets: add_edge(...)" for one chunk
AddTriplets(kg, triplets, page) ==
    IF triplets = << >> THEN kg
    ELSE AddTriplets(AddEdge(kg, triplets[1][1], triplets[1][3], triplets[1][2], page),
                     Tail(triplets), page)

RECURSIVE AddChunksAbortOnFailure(_, _, _)
\* a loop that the first failed extraction ends
AddChunksAbortOnFailure(kg, sampled, failed) ==
    IF sampled = << >> THEN kg
    ELSE LET n == Len(sampled)
             before == AddChunksAbortOnFailure(kg, SubSeq(sampled, 1, n - 1), failed)
         IN  IF \E i \in failed : i <= n THEN before
             ELSE AddTriplets(before, LlmTriplets(sampled[n].text), sampled[n].page)

RECURSIVE AddChunks(_, _, _)
\* the loop of build_knowledge_graph over the sampled chunks; failed: the
\* positions whose extraction failed
AddChunks(kg, sampled, failed) ==
    IF sampled = << >> THEN kg
    ELSE LET n == Len(sampled)
             before == AddChunks(kg, SubSeq(sampled, 1, n - 1), failed)
         IN  AddTriplets(before, ExtractTriplets(sampled[n].text, n \in failed), sampled[n].page)

\* min(int(len(chunks) * sample_rate), len(chunks)), sample_rate in percent
SampleSize(n, rate) == Min((n * rate) \div 100, n)

\* random.sample(chunks, k): every arrangement of k chunks at distinct positions
Samples(list, k) ==
    { [ i \in 1..k |-> list[pos[i]] ] :
        pos \in { q \in [1..k -> 1..Len(list)] : \A i, j \in 1..k : i # j => q[i] # q[j] } }

\* the walks of n edges from start
RECURSIVE Walks(_, _, _)
Walks(kg, start, n) ==
    IF n = 0 THEN { <<start>> }
    ELSE UNION { { Append(w, v) : v \in { u \in SeqSet(kg.nodes) : <<w[Len(w)], u>> \in DOMAIN kg.edges } }
                 : w \in Walks(kg, start, n - 1) }

\* the walks from start by number of edges (a shortest path has fewer edges
\* than the graph has nodes)
AllWalks(kg, start) == [ n \in 1..Len(kg.nodes) |-> Walks(kg, start, n) ]

\* the walks of n edges that end in target
WalksTo(walks, target, n) == { w \in walks[n] : w[Len(w)] = target }

\* the hop counts at which target is reached
HopCounts(walks, target) == { n \in DOMAIN walks : WalksTo(walks, target, n) # {} }

\* nx.shortest_path raises NetworkXNoPath unless this holds
HasPath(walks, target) == HopCounts(walks, target) # {}

Distance(walks, target) ==
    CHOOSE n \in HopCounts(walks, target) : \A m \in HopCounts(walks, target) : n <= m

\* a path finder that returns any walk to the target, shortest or not
AnyPaths(walks, target) ==
    UNION { WalksTo(walks, target, n) : n \in HopCounts(walks, target) }

\* nx.shortest_path(G, entity, target) returns one shortest path; which one,
\* where several exist, is the library's choice: any of them
ShortestPaths(walks, target) == WalksTo(walks, target, Distance(walks, target))

\* len(path) <= max_hops + 1
WithinHopsOffByOne(path, max_hops) == Len(path) <= max_hops + 2

WithinHops(path, max_hops) == Len(path) <= max_hops + 1

\* the relations along a path: edge_data.get("relation", "related_to")
PathRelationsFirstEdge(kg, path) ==
    [ i \in 1..(Len(path) - 1) |-> kg.edges[<<path[1], path[2]>>].relation ]

PathRelations(kg, path) ==
    [ i \in 1..(Len(path) - 1) |-> kg.edges[<<path[i], path[i + 1]>>].relation ]

GraphEntry(kg, target, path) ==
    [ entity |-> target, path |-> path, relations |-> PathRelations(kg, path),
      hops |-> Len(path) - 1 ]

\* list.sort(key=hops) is stable: entry i lands after the entries with fewer
\* hops and the earlier entries with the same hops
SortByHopsOmitted(list) == list

SortByHops(list) ==
    LET rank(i) == Cardinality({ j \in 1..Len(list) :
                        \/ list[j].hops < list[i].hops
                        \/ list[j].hops = list[i].hops /\ j <= i })
    IN  [ r \in 1..Len(list) |-> list[CHOOSE i \in 1..Len(list) : rank(i) = r] ]

GraphLimit == 10    \* results[:10]

\* nx.shortest_path called once per target: every way of getting one of the
\* target's paths for each target, in the order of the targets
RECURSIVE PathChoices(_, _)
PathChoices(paths, targets) ==
    IF targets = << >> THEN { << >> }
    ELSE { Append(f, q) : f \in PathChoices(paths, SubSeq(targets, 1, Len(targets) - 1)),
                          q \in paths[targets[Len(targets)]] }

\* the lists graph_search(entity, max_hops) can return
GraphSearch(kg, entity, max_hops) ==
    IF entity \notin SeqSet(kg.nodes) THEN { << >> }
    ELSE LET walks == AllWalks(kg, entity)
             paths == [ i \in 1..Len(kg.nodes) |->
                          IF kg.nodes[i] # entity /\ HasPath(walks, kg.nodes[i])
                          THEN { q \in ShortestPaths(walks, kg.nodes[i]) : WithinHops(q, max_hops) }
                          ELSE {} ]
             hit == { i \in 1..Len(kg.nodes) : paths[i] # {} }
             targets == Filter([ i \in 1..Len(kg.nodes) |-> i ], hit)
             choices == PathChoices(paths, targets)
         IN  { Take(SortByHops([ j \in 1..Len(targets) |->
                                   GraphEntry(kg, kg.nodes[targets[j]], f[j]) ]), GraphLimit)
                 : f \in choices }

\* Python's "needle in text" on strings
IsSubstring(needle, text) ==
    \E i \in 0..(Len(text) - Len(needle)) : SubSeq(text, i + 1, i + Len(needle)) = needle

Count(text, token) == Cardinality({ i \in 1..Len(text) : text[i] = token })

\* embedding_model.encode: the injected embedder, a fixed map from text to a
\* vector of embedding_dim = 2 numbers
Embed(text) ==
    << Count(text, "CNN") + Count(text, "pooling"),
       Count(text, "dimension") + Count(text, "layer") >>

\* the squared L2 distance IndexFlatL2 reports
L2(u, v) == (u[1] - v[1]) * (u[1] - v[1]) + (u[2] - v[2]) * (u[2] - v[2])

FltMax == 999999    \* the distance FAISS reports beside a missing neighbour

\* index.search(query_embedding, top_k): top_k <<distance, label>> pairs, nearest
\* first, equal distances by label; labels count from 0 and a missing
\* neighbour has label -1
FaissSearch(idx, q, top_k) ==
    LET n == Len(idx)
        dist(i) == L2(idx[i], q)
        rank(i) == Cardinality({ j \in 1..n : dist(j) < dist(i) \/ (dist(j) = dist(i) /\ j <= i) })
    IN  [ r \in 1..top_k |->
            IF r <= n THEN LET i == CHOOSE i \in 1..n : rank(i) = r IN <<dist(i), i - 1>>
            ELSE <<FltMax, 0 - 1>> ]

\* list[i] in Python: from 0, a negative i counting from the end
PyIndex(list, i) == IF i >= 0 THEN list[i + 1] ELSE list[Len(list) + i + 1]

\* list[i] raises IndexError
PyIndexRaises(list, i) == i >= Len(list) \/ i < 0 - Len(list)

\* "if idx < len(self.chunks)": the neighbour is turned into a result
Listed(rag, label) == label < Len(rag.chunks)

\* vector_search(query, top_k) raises IndexError: a listed label is no
\* position of self.chunks
VectorSearchRaises(rag, query, top_k) ==
    LET found == FaissSearch(rag.index, Embed(query), top_k)
    IN  \E i \in 1..top_k : Listed(rag, found[i][2]) /\ PyIndexRaises(rag.chunks, found[i][2])

\* the list vector_search(query, top_k) returns when it does not raise
VectorSearch(rag, query, top_k) ==
    LET found == FaissSearch(rag.index, Embed(query), top_k)
        hit == { i \in 1..top_k : Listed(rag, found[i][2]) }
        all == [ i \in 1..top_k |->
                    IF i \in hit
                    THEN [ text   |-> PyIndex(rag.chunks, found[i][2]).text,
                           page   |-> PyIndex(rag.chunks, found[i][2]).page,
                           score  |-> found[i][1],
                           source |-> PyIndex(rag.chunks, found[i][2]).source ]
                    ELSE [ score |-> found[i][1] ] ]
    IN  Filter(all, hit)

\* the entities hybrid_search looks up in the graph
EntitiesInQuery(rag, query, vector_results) ==
    IF vector_results # << >>
    THEN Filter(rag.knowledge_graph.nodes,
                { i \in 1..Len(rag.knowledge_graph.nodes) :
                    \/ IsSubstring(rag.knowledge_graph.nodes[i], query)
                    \/ IsSubstring(rag.knowledge_graph.nodes[i], vector_results[1].text) })
    ELSE << >>

RECURSIVE GraphResults(_, _)
\* "for entity in entities: graph_results.extend(graph_search(entity, 2))":
\* the lists that can result
GraphResults(kg, entities) ==
    IF entities = << >> THEN { << >> }
    ELSE { before \o related :
             before \in GraphResults(kg, SubSeq(entities, 1, Len(entities) - 1)),
             related \in GraphSearch(kg, entities[Len(entities)], 2) }

\* the dicts hybrid_search(query, top_k) can return when vector_search does not raise
HybridSearch(rag, query, top_k) ==
    LET vector_results == VectorSearch(rag, query, top_k)
        entities_in_query == EntitiesInQuery(rag, query, vector_results)
    IN  { [ vector_results |-> vector_results,
            graph_results  |-> Take(g, GraphLimit),
            query          |-> query ]
          : g \in GraphResults(rag.knowledge_graph, Take(entities_in_query, 3)) }

\* GraphRAG.__init__: an empty index, no chunks, an empty graph
NewGraphRAG == [ chunks |-> << >>, index |-> << >>, knowledge_graph |-> EmptyGraph ]

\* the retriever after build_vector_index(list); list = [] makes index.add raise
\* after self.chunks was replaced
BuildVectorIndex(rag, list) ==
    [ rag EXCEPT !.chunks = list,
                 !.index = rag.index \o [ i \in 1..Len(list) |-> Embed(list[i].text) ] ]

\* the graphs build_knowledge_graph(list, sample_rate) can leave
BuildKnowledgeGraph(kg, list, rate) ==
    { AddChunks(kg, sampled, failed) :
        sampled \in Samples(list, SampleSize(Len(list), rate)),
        failed \in SUBSET (1..SampleSize(Len(list), rate)) }

\* ---- the calls on one GraphRAG ----
Rag == [ chunks |-> chunks, index |-> index, knowledge_graph |-> knowledge_graph ]

build_vector_index(list) ==
    /\ chunks' = list
    /\ index' = BuildVectorIndex(Rag, list).index
    /\ rag_ret' = [ op |-> "build_vector_index",
                    raised |-> IF list = << >> THEN "ValueError" ELSE "" ]
    /\ UNCHANGED knowledge_graph

\* rag_ret keeps, as history, the graph before the call, the chunks
\* random.sample picked and the positions whose extraction failed
build_knowledge_graph(list, rate) ==
    /\ \E sampled \in Samples(list, SampleSize(Len(list), rate)) :
       \E failed \in SUBSET (1..Len(sampled)) :
          /\ knowledge_graph' = AddChunks(knowledge_graph, sampled, failed)
          /\ rag_ret' = [ op |-> "build_knowledge_graph", raised |-> "",
                          before |-> knowledge_graph, sampled |-> sampled,
                          failed |-> failed ]
    /\ UNCHANGED <<chunks, index>>

vector_search(query, top_k) ==
    /\ rag_ret' = IF VectorSearchRaises(Rag, query, top_k)
                  THEN [ op |-> "vector_search", raised |-> "IndexError",
                         query |-> query, top_k |-> top_k ]
                  ELSE [ op |-> "vector_search", raised |-> "", query |-> query, top_k |-> top_k,
                         value |-> VectorSearch(Rag, query, top_k) ]
    /\ UNCHANGED <<chunks, index, knowledge_graph>>

graph_search(entity, max_hops) ==
    /\ \E value \in GraphSearch(knowledge_graph, entity, max_hops) :
          rag_ret' = [ op |-> "graph_search", raised |-> "", entity |-> entity,
                       max_hops |-> max_hops, value |-> value ]
    /\ UNCHANGED <<chunks, index, knowledge_graph>>

hybrid_search(query, top_k) ==
    /\ IF VectorSearchRaises(Rag, query, top_k)
       THEN rag_ret' = [ op |-> "hybrid_search", raised |-> "IndexError",
                         query |-> query, top_k |-> top_k ]
       ELSE \E value \in HybridSearch(Rag, query, top_k) :
               rag_ret' = [ op |-> "hybrid_search", raised |-> "", query |-> query,
                            top_k |-> top_k, value |-> value ]
    /\ UNCHANGED <<chunks, index, knowledge_graph>>

RagInit ==
    /\ chunks = NewGraphRAG.chunks
    /\ index = NewGraphRAG.index
    /\ knowledge_graph = NewGraphRAG.knowledge_graph
    /\ rag_ret = [ op |-> "none", raised |-> "" ]

(***************************************************************************)
(* student_memory.py : persistence of a tracker                            *)
(***************************************************************************)
\* a StudentMemoryTracker object
NewTracker(student_id, t) ==
    [ student_id |-> student_id, knowledge_nodes |-> << >>,
      created_at |-> t, last_activity |-> t ]

\* MemoryNode.to_dict (datetimes by isoformat, None as null)
NodeToDict(concept, node) ==
    [ concept         |-> concept,
      easiness_factor |-> node.easiness_factor,
      interval        |-> node.interval,
      repetitions     |-> node.repetitions,
      last_review     |-> node.last_review,
      next_review     |-> node.next_review,
      memory_strength |-> node.memory_strength,
      review_history  |-> node.review_history ]

\* a from_dict that leaves memory_strength at its constructor value
NodeFromDictStrengthLost(data) ==
    [ MemoryNode EXCEPT !.easiness_factor = data.easiness_factor,
                        !.interval = data.interval,
                        !.repetitions = data.repetitions,
                        !.review_history = data.review_history,
                        !.last_review = data.last_review,
                        !.next_review = data.next_review ]

\* MemoryNode.from_dict
NodeFromDict(data) ==
    [ MemoryNode EXCEPT !.easiness_factor = data.easiness_factor,
                        !.interval = data.interval,
                        !.repetitions = data.repetitions,
                        !.memory_strength = data.memory_strength,
                        !.review_history = data.review_history,
                        !.last_review = IF data.last_review # None THEN data.last_review ELSE @,
                        !.next_review = IF data.next_review # None THEN data.next_review ELSE @ ]

\* StudentMemoryTracker.to_dict
TrackerToDict(tracker) ==
    [ student_id      |-> tracker.student_id,
      created_at      |-> tracker.created_at,
      last_activity   |-> tracker.last_activity,
      knowledge_nodes |-> [ i \in 1..Len(tracker.knowledge_nodes) |->
                              << tracker.knowledge_nodes[i][1],
                                 NodeToDict(tracker.knowledge_nodes[i][1], tracker.knowledge_nodes[i][2]) >> ] ]

\* StudentMemoryTracker.from_dict
TrackerFromDict(data) ==
    [ student_id      |-> data.student_id,
      created_at      |-> data.created_at,
      last_activity   |-> data.last_activity,
      knowledge_nodes |-> [ i \in 1..Len(data.knowledge_nodes) |->
                              << data.knowledge_nodes[i][1], NodeFromDict(data.knowledge_nodes[i][2]) >> ] ]

\* a learner file: absent, not parseable, or the JSON save_to_file wrote
NoFile == [ kind |-> "absent" ]
Malformed == [ kind |-> "malformed" ]
SavedFile(tracker) == [ kind |-> "json", data |-> TrackerToDict(tracker) ]

\* tracker.record_quiz_result on a tracker object at time t
TrackerRecord(tracker, concept, score, t) ==
    [ tracker EXCEPT !.knowledge_nodes = RecordQuizResult(@, concept, score, t),
                     !.last_activity = t ]

\* tracker.get_learning_progress on a tracker object at time t: the stored
\* strengths are refreshed
TrackerRefresh(tracker, t) ==
    [ tracker EXCEPT !.knowledge_nodes = RefreshStrengths(@, t) ]

(***************************************************************************)
(* session_manager.py : CourseSession                                      *)
(***************************************************************************)
Learners == {"s1", "s2"}
Rosters == { << >>, <<"s1">> }

\* the course material on disk: what parse_pdf extracts from each existing
\* path (a handout that states its two sentences twice; a PDF of short pages
\* yields no chunk); any other path does not exist
CourseCorpus ==
    << Chunk(CNN, "uses", pooling), Chunk(pooling, "reduces", dimension),
       Chunk(CNN, "uses", pooling), Chunk(pooling, "reduces", dimension) >>
PdfFiles == [ p \in {"course.pdf", "short.pdf"} |->
                IF p = "course.pdf" THEN CourseCorpus ELSE << >> ]
PdfPaths == { None, Some("course.pdf"), Some("short.pdf"), Some("missing.pdf") }

\* pdf_path and os.path.exists(pdf_path)
PdfGiven(pdf_path) == pdf_path # None /\ pdf_path[1] \in DOMAIN PdfFiles

\* the retrievers ingest_pdf can leave: build_vector_index(chunks), then
\* build_knowledge_graph(chunks, sample_rate=0.3)
IngestPdf(rag, list) ==
    { [ BuildVectorIndex(rag, list) EXCEPT !.knowledge_graph = kg ] :
        kg \in BuildKnowledgeGraph(rag.knowledge_graph, list, 30) }

\* ingest_pdf raises: index.add of an empty array
IngestRaises(list) == list = << >>

\* load_from_file(student_file) if it exists, else StudentMemoryTracker(student_id)
LoadTracker(fs, student_id, t) ==
    IF fs[student_id].kind = "json" THEN TrackerFromDict(fs[student_id].data)
    ELSE NewTracker(student_id, t)

\* a loop that loads the stored learners and creates nobody
RECURSIVE LoadTrackersStoredOnly(_, _, _, _, _)
LoadTrackersStoredOnly(trackers, ids, fs, n, t) ==
    IF n = 0 THEN trackers
    ELSE LET rest == LoadTrackersStoredOnly(trackers, ids, fs, n - 1, t)
         IN  IF fs[ids[n]].kind = "json"
             THEN DictPut(rest, ids[n], LoadTracker(fs, ids[n], t)) ELSE rest

\* the first n iterations of the loop over student_ids in start_session
RECURSIVE LoadTrackers(_, _, _, _, _)
LoadTrackers(trackers, ids, fs, n, t) ==
    IF n = 0 THEN trackers
    ELSE DictPut(LoadTrackers(trackers, ids, fs, n - 1, t), ids[n], LoadTracker(fs, ids[n], t))

\* a loader that takes an unparseable file for a missing one
UnreadableIgnored(ids, fs) == {}

\* roster positions whose file json.load cannot parse
Unreadable(ids, fs) == { i \in 1..Len(ids) : fs[ids[i]].kind = "malformed" }

\* "if not self.is_active: raise RuntimeError" of the three serving calls
SessionNotStartedIgnored(active) == FALSE
SessionNotStarted(active) == ~active

start_session(pdf_path) ==
    LET given == PdfGiven(pdf_path)
        list == IF given THEN PdfFiles[pdf_path[1]] ELSE << >>
        bad == Unreadable(student_ids, files)
        loaded == IF bad = {} THEN Len(student_ids)
                  ELSE (CHOOSE i \in bad : \A j \in bad : i <= j) - 1
    IN  /\ start_time' = Some(now)
        /\ starts' = starts + 1
        /\ IF given /\ IngestRaises(list)
           THEN /\ rag_engine' = Some(NewGraphRAG)
                /\ ses_ret' = [ op |-> "start_session", pdf_path |-> pdf_path, raised |-> "ValueError" ]
                /\ UNCHANGED <<student_trackers, is_active>>
           ELSE /\ \E rag \in (IF given THEN IngestPdf(NewGraphRAG, list) ELSE {NewGraphRAG}) :
                      rag_engine' = Some(rag)
                /\ student_trackers' = LoadTrackers(student_trackers, student_ids, files, loaded, now)
                /\ IF bad = {}
                   THEN /\ is_active' = TRUE
                        /\ ses_ret' = [ op |-> "start_session", pdf_path |-> pdf_path, raised |-> "" ]
                   ELSE /\ ses_ret' = [ op |-> "start_session", pdf_path |-> pdf_path, raised |-> "JSONDecodeError" ]
                        /\ UNCHANGED is_active
        /\ UNCHANGED <<student_ids, stats, end_time, files, ended>>

\* a save loop that walks the roster instead of the resident trackers
SaveTrackersRosterOnly(fs, trackers) ==
    [ s \in Learners |->
        IF DictHas(trackers, s) /\ s \in SeqSet(student_ids)
        THEN SavedFile(DictGet(trackers, s)) ELSE fs[s] ]

\* the learner files after end_session's loop "for student_id, tracker in
\* self.student_trackers.items(): tracker.save_to_file(student_file)"
SaveTrackers(fs, trackers) ==
    [ s \in Learners |->
        IF DictHas(trackers, s) THEN SavedFile(DictGet(trackers, s)) ELSE fs[s] ]

\* an end_session without the "if not self.is_active: return" guard
EndSessionUnguarded ==
    /\ end_time' = Some(now)
    /\ files' = SaveTrackers(files, student_trackers)
    /\ rag_engine' = None
    /\ student_trackers' = << >>
    /\ is_active' = FALSE
    /\ ended' = TRUE
    /\ ses_ret' = [ op |-> "end_session", raised |-> "", value |-> None ]
    /\ UNCHANGED <<student_ids, stats, start_time, starts>>

end_session ==
    IF ~is_active
    THEN /\ ses_ret' = [ op |-> "end_session", raised |-> "", value |-> None ]
         /\ UNCHANGED <<student_ids, is_active, rag_engine, student_trackers, stats,
                        start_time, end_time, files, ended, starts>>
    ELSE /\ end_time' = Some(now)
         /\ files' = SaveTrackers(files, student_trackers)
         /\ rag_engine' = None
         /\ student_trackers' = << >>
         /\ is_active' = FALSE
         /\ ended' = TRUE
         /\ ses_ret' = [ op |-> "end_session", raised |-> "", value |-> None ]
         /\ UNCHANGED <<student_ids, stats, start_time, starts>>

query_knowledge(query, student_id) ==
    IF SessionNotStarted(is_active)
    THEN /\ ses_ret' = [ op |-> "query_knowledge", student_id |-> student_id, raised |-> "RuntimeError" ]
         /\ UNCHANGED <<student_ids, is_active, rag_engine, student_trackers, stats,
                        start_time, end_time, files, ended, starts>>
    ELSE IF rag_engine # None /\ VectorSearchRaises(rag_engine[1], query, 3)
    THEN /\ stats' = [ stats EXCEPT !.queries = @ + 1 ]
         /\ ses_ret' = [ op |-> "query_knowledge", student_id |-> student_id, raised |-> "IndexError" ]
         /\ UNCHANGED <<student_ids, is_active, rag_engine, student_trackers,
                        start_time, end_time, files, ended, starts>>
    ELSE /\ stats' = [ stats EXCEPT !.queries = @ + 1,
                                    !.cache_hits = IF rag_engine # None THEN @ + 1 ELSE @ ]
         /\ student_trackers' =
               IF DictHas(student_trackers, student_id)
               THEN DictPut(student_trackers, student_id,
                            TrackerRefresh(DictGet(student_trackers, student_id), now))
               ELSE student_trackers
         /\ \E results \in (IF rag_engine # None THEN HybridSearch(rag_engine[1], query, 3)
                            ELSE { [ vector_results |-> << >>, graph_results |-> << >> ] }) :
               ses_ret' = [ op |-> "query_knowledge", student_id |-> student_id, raised |-> "",
                            value |-> [ query |-> query,
                                        rag_results |-> results,
                                        student_progress |->
                                            IF DictHas(student_trackers, student_id)
                                            THEN Some(LearningProgress(
                                                   DictGet(student_trackers, student_id).knowledge_nodes, now))
                                            ELSE None,
                                        from_cache |-> TRUE ] ]
         /\ UNCHANGED <<student_ids, is_active, rag_engine, start_time, end_time, files,
                        ended, starts>>

update_student_memory(student_id, concept, score) ==
    IF SessionNotStarted(is_active)
    THEN /\ ses_ret' = [ op |-> "update_student_memory", student_id |-> student_id, raised |-> "RuntimeError" ]
         /\ UNCHANGED <<student_ids, is_active, rag_engine, student_trackers, stats,
                        start_time, end_time, files, ended, starts>>
    ELSE LET tracker == IF DictHas(student_trackers, student_id)
                        THEN DictGet(student_trackers, student_id)
                        ELSE NewTracker(student_id, now)
             after == TrackerRecord(tracker, concept, score, now)
         IN  /\ student_trackers' = DictPut(student_trackers, student_id, after)
             /\ stats' = [ stats EXCEPT !.memory_updates = @ + 1 ]
             /\ ses_ret' = [ op |-> "update_student_memory", student_id |-> student_id, raised |-> "",
                             value |-> RecordReturn(after.knowledge_nodes, concept) ]
             /\ UNCHANGED <<student_ids, is_active, rag_engine, start_time, end_time, files,
                            ended, starts>>

\* floats that are quotients: <<numerator, denominator>>, denominator > 0
RatLess(a, b) == a[1] * b[2] < b[1] * a[2]
RatAdd(a, b) == << a[1] * b[2] + b[1] * a[2], a[2] * b[2] >>

RECURSIVE RatSum(_)
RatSum(s) == IF s = << >> THEN <<0, 1>> ELSE RatAdd(RatSum(SubSeq(s, 1, Len(s) - 1)), s[Len(s)])

SeqMin(s) == CHOOSE x \in { s[i] : i \in 1..Len(s) } : \A i \in 1..Len(s) : x <= s[i]
SeqMax(s) == CHOOSE x \in { s[i] : i \in 1..Len(s) } : \A i \in 1..Len(s) : x >= s[i]

WeakClassAverage == 400     \* stat["class_average"] < 0.4

\* one entry of concept_stats, from concept_scores[concept_name]
ConceptStat(concept_name, strengths) ==
    [ concept       |-> concept_name,
      class_average |-> << SumSeq(strengths), Len(strengths) >>,
      student_count |-> Len(strengths),
      min           |-> SeqMin(strengths),
      max           |-> SeqMax(strengths) ]

\* weak_concepts.sort(key=class_average) is stable
SortByAverage(list) ==
    LET rank(i) == Cardinality({ j \in 1..Len(list) :
                        \/ RatLess(list[j].class_average, list[i].class_average)
                        \/ ~RatLess(list[i].class_average, list[j].class_average) /\ j <= i })
    IN  [ r \in 1..Len(list) |-> list[CHOOSE i \in 1..Len(list) : rank(i) = r] ]

\* what get_class_statistics computes and returns once concept_scores
\* (dict concept -> list of strengths) is collected
ClassStatistics(concept_scores, trackers) ==
    LET concept_stats == [ i \in 1..Len(concept_scores) |->
                             ConceptStat(concept_scores[i][1], concept_scores[i][2]) ]
        weak == { i \in 1..Len(concept_stats) :
                    RatLess(concept_stats[i].class_average, <<WeakClassAverage, 1>>) }
        averages == [ i \in 1..Len(concept_stats) |->
                        << concept_stats[i].class_average[1],
                           concept_stats[i].class_average[2] * Len(concept_stats) >> ]
    IN  [ weak_concepts  |-> SortByAverage(Filter(concept_stats, weak)),
          total_concepts |-> Len(concept_stats),
          class_average  |-> IF concept_stats # << >> THEN RatSum(averages) ELSE <<0, 1>>,
          student_count  |-> Len(trackers) ]

\* progress["concepts"] is a key get_learning_progress never returns: the
\* first iteration of the loop over the trackers raises KeyError, after
\* get_learning_progress refreshed that tracker's strengths
get_class_statistics ==
    IF SessionNotStarted(is_active)
    THEN /\ ses_ret' = [ op |-> "get_class_statistics", raised |-> "RuntimeError" ]
         /\ UNCHANGED <<student_ids, is_active, rag_engine, student_trackers, stats,
                        start_time, end_time, files, ended, starts>>
    ELSE IF student_trackers # << >>
    THEN /\ student_trackers' =
               [ student_trackers EXCEPT ![1] = << @[1], TrackerRefresh(@[2], now) >> ]
         /\ ses_ret' = [ op |-> "get_class_statistics", raised |-> "KeyError" ]
         /\ UNCHANGED <<student_ids, is_active, rag_engine, stats, start_time, end_time,
                        files, ended, starts>>
    ELSE /\ ses_ret' = [ op |-> "get_class_statistics", raised |-> "",
                         value |-> ClassStatistics(<< >>, student_trackers) ]
         /\ UNCHANGED <<student_ids, is_active, rag_engine, student_trackers, stats,
                        start_time, end_time, files, ended, starts>>

\* learner files a run can find on disk: none, one written by an earlier
\* session, one that is not JSON
StoredFiles ==
    { NoFile, Malformed,
      SavedFile(TrackerRecord(NewTracker("s1", 0), "c1", 5, 0)) }

\* the threads that call one session at once
Threads == {"t1", "t2"}

\* no update accepted for anybody
NoneAccepted == [ s \in Learners |-> << >> ]

\* a thread that is inside no call
NoCall == [ pc |-> "idle", done |-> << >> ]

\* nobody inside update_student_memory
NoCaller == [ pc |-> "idle", calls |-> << >> ]

\* CourseSession.__init__
SessionInit(rosters, stored) ==
    /\ student_ids \in rosters
    /\ is_active = FALSE
    /\ rag_engine = None
    /\ student_trackers = << >>
    /\ stats = [ queries |-> 0, memory_updates |-> 0, cache_hits |-> 0 ]
    /\ start_time = None
    /\ end_time = None
    /\ files \in { [ s \in Learners |-> IF s = "s1" THEN f ELSE NoFile ] : f \in stored }
    /\ ended = FALSE
    /\ starts = 0
    /\ ses_ret = [ op |-> "none", raised |-> "" ]
    /\ callers = [ s \in Learners |-> NoCaller ]
    /\ threads = [ t \in Threads |-> NoCall ]
    /\ accepted = NoneAccepted

(***************************************************************************)
(* update_student_memory entered by several callers at once, one caller    *)
(* per learner: each step is one read or one write of the shared session.  *)
(* record_quiz_result works on the caller's own tracker only and is one    *)
(* step.                                                                   *)
(***************************************************************************)
\* the call is made: "if not self.is_active: raise RuntimeError"
um_call(student_id, concept, score) ==
    /\ callers[student_id].pc = "idle"
    /\ IF SessionNotStarted(is_active)
       THEN /\ ses_ret' = [ op |-> "update_student_memory", student_id |-> student_id,
                            raised |-> "RuntimeError" ]
            /\ UNCHANGED callers
       ELSE /\ callers' = [ callers EXCEPT ![student_id] =
                              [ pc |-> "get", calls |-> @.calls,
                                concept |-> concept, score |-> score ] ]
            /\ UNCHANGED ses_ret
    /\ UNCHANGED <<student_ids, is_active, rag_engine, student_trackers, stats,
                   start_time, end_time, files, ended, starts>>

\* tracker = self.student_trackers.get(student_id); if not tracker: ...
um_get(student_id) ==
    /\ callers[student_id].pc = "get"
    /\ callers' = [ callers EXCEPT ![student_id].pc =
                      IF DictHas(student_trackers, student_id) THEN "record" ELSE "admit" ]
    /\ UNCHANGED <<student_ids, is_active, rag_engine, student_trackers, stats,
                   start_time, end_time, files, ended, starts, ses_ret>>

\* tracker = StudentMemoryTracker(student_id); self.student_trackers[student_id] = tracker
um_admit(student_id) ==
    /\ callers[student_id].pc = "admit"
    /\ student_trackers' = DictPut(student_trackers, student_id, NewTracker(student_id, now))
    /\ callers' = [ callers EXCEPT ![student_id].pc = "record" ]
    /\ UNCHANGED <<student_ids, is_active, rag_engine, stats,
                   start_time, end_time, files, ended, starts, ses_ret>>

\* result = tracker.record_quiz_result(concept, score)
um_record(student_id) ==
    LET c == callers[student_id]
        after == TrackerRecord(DictGet(student_trackers, student_id), c.concept, c.score, now)
    IN  /\ c.pc = "record"
        /\ student_trackers' = DictPut(student_trackers, student_id, after)
        /\ callers' = [ callers EXCEPT ![student_id] =
                          [ pc |-> "load", calls |-> c.calls, concept |-> c.concept,
                            score |-> c.score,
                            result |-> RecordReturn(after.knowledge_nodes, c.concept) ] ]
        /\ UNCHANGED <<student_ids, is_active, rag_engine, stats,
                       start_time, end_time, files, ended, starts, ses_ret>>

\* self.stats["memory_updates"] += 1, the read
um_load(student_id) ==
    LET c == callers[student_id]
    IN  /\ c.pc = "load"
        /\ callers' = [ callers EXCEPT ![student_id] =
                          [ pc |-> "store", calls |-> c.calls, concept |-> c.concept,
                            score |-> c.score, result |-> c.result,
                            count |-> stats.memory_updates ] ]
        /\ UNCHANGED <<student_ids, is_active, rag_engine, student_trackers, stats,
                       start_time, end_time, files, ended, starts, ses_ret>>

\* self.stats["memory_updates"] += 1, the write; return result
um_store(student_id) ==
    LET c == callers[student_id]
    IN  /\ c.pc = "store"
        /\ stats' = [ stats EXCEPT !.memory_updates = c.count + 1 ]
        /\ callers' = [ callers EXCEPT ![student_id] =
                          [ pc |-> "idle", calls |-> Append(c.calls, <<c.concept, c.score>>) ] ]
        /\ ses_ret' = [ op |-> "update_student_memory", student_id |-> student_id,
                        raised |-> "", value |-> c.result ]
        /\ UNCHANGED <<student_ids, is_active, rag_engine, student_trackers,
                       start_time, end_time, files, ended, starts>>

(***************************************************************************)
(* update_student_memory entered by two threads at once, for any learners, *)
(* the same one included.  No statement of it takes a lock.  A thread's    *)
(* local variable "tracker" is a reference: it is either the object now in *)
(* student_trackers (detached = None) or an object that another thread's   *)
(* admission has since replaced there (detached = its state).  With two    *)
(* threads a replaced object has one holder.  Inside record_quiz_result    *)
(* the membership test, the insertion of a fresh node and the update of    *)
(* the node are separate steps; the update itself is taken as one step.    *)
(***************************************************************************)
\* thread u is past "tracker = self.student_trackers.get(student_id)" for
\* learner s and holds the object that student_trackers maps s to
HoldsResident(u, s) ==
    /\ threads[u].pc \in {"test", "new", "review"}
    /\ threads[u].student_id = s
    /\ threads[u].detached = None

\* the state of the object a thread's local "tracker" refers to
Held(t) ==
    IF threads[t].detached = None
    THEN DictGet(student_trackers, threads[t].student_id)
    ELSE threads[t].detached[1]

\* a write through the thread's local "tracker", the thread's locals
\* becoming those of after
WriteHeld(t, tracker, after) ==
    IF threads[t].detached = None
    THEN /\ student_trackers' = DictPut(student_trackers, threads[t].student_id, tracker)
         /\ threads' = [ threads EXCEPT ![t] = after ]
    ELSE /\ threads' = [ threads EXCEPT ![t] = [ after EXCEPT !.detached = Some(tracker) ] ]
         /\ UNCHANGED student_trackers

\* the call is made: "if not self.is_active: raise RuntimeError"
usm_call(t, student_id, concept, score) ==
    /\ threads[t].pc = "idle"
    /\ IF SessionNotStarted(is_active)
       THEN /\ ses_ret' = [ op |-> "update_student_memory", student_id |-> student_id,
                            raised |-> "RuntimeError" ]
            /\ UNCHANGED threads
       ELSE /\ threads' = [ threads EXCEPT ![t] =
                              [ pc |-> "get", done |-> @.done, student_id |-> student_id,
                                concept |-> concept, score |-> score, detached |-> None,
                                result |-> None, count |-> 0 ] ]
            /\ UNCHANGED ses_ret
    /\ UNCHANGED <<student_ids, is_active, rag_engine, student_trackers, stats,
                   start_time, end_time, files, ended, starts, callers>>

\* tracker = self.student_trackers.get(student_id); if not tracker: ...
usm_get(t) ==
    /\ threads[t].pc = "get"
    /\ threads' = [ threads EXCEPT ![t].pc =
                      IF DictHas(student_trackers, threads[t].student_id)
                      THEN "test" ELSE "admit" ]
    /\ UNCHANGED <<student_ids, is_active, rag_engine, student_trackers, stats,
                   start_time, end_time, files, ended, starts, ses_ret, callers>>

\* tracker = StudentMemoryTracker(student_id); self.student_trackers[student_id] = tracker
\* : the object another thread took from the dict is in the dict no longer
usm_admit(t) ==
    LET s == threads[t].student_id
    IN  /\ threads[t].pc = "admit"
        /\ student_trackers' = DictPut(student_trackers, s, NewTracker(s, now))
        /\ threads' = [ u \in Threads |->
                          IF u = t THEN [ threads[t] EXCEPT !.pc = "test" ]
                          ELSE IF HoldsResident(u, s)
                          THEN [ threads[u] EXCEPT !.detached = Some(DictGet(student_trackers, s)) ]
                          ELSE threads[u] ]
        /\ UNCHANGED <<student_ids, is_active, rag_engine, stats,
                       start_time, end_time, files, ended, starts, ses_ret, callers>>

\* record_quiz_result: "if concept not in self.knowledge_nodes:"
usm_test(t) ==
    /\ threads[t].pc = "test"
    /\ threads' = [ threads EXCEPT ![t].pc =
                      IF DictHas(Held(t).knowledge_nodes, threads[t].concept)
                      THEN "review" ELSE "new" ]
    /\ UNCHANGED <<student_ids, is_active, rag_engine, student_trackers, stats,
                   start_time, end_time, files, ended, starts, ses_ret, callers>>

\* record_quiz_result: "self.knowledge_nodes[concept] = MemoryNode(concept)"
usm_new(t) ==
    /\ threads[t].pc = "new"
    /\ WriteHeld(t, [ Held(t) EXCEPT !.knowledge_nodes =
                                       DictPut(@, threads[t].concept, MemoryNode) ],
                 [ threads[t] EXCEPT !.pc = "review" ])
    /\ UNCHANGED <<student_ids, is_active, rag_engine, stats,
                   start_time, end_time, files, ended, starts, ses_ret, callers>>

\* record_quiz_result: "node = self.knowledge_nodes[concept]" and the update
\* of that node, to the value that is returned
usm_review(t) ==
    LET after == TrackerRecord(Held(t), threads[t].concept, threads[t].score, now)
    IN  /\ threads[t].pc = "review"
        /\ WriteHeld(t, after,
                     [ threads[t] EXCEPT !.pc = "load",
                          !.result = Some(RecordReturn(after.knowledge_nodes, threads[t].concept)) ])
    /\ UNCHANGED <<student_ids, is_active, rag_engine, stats,
                   start_time, end_time, files, ended, starts, ses_ret, callers>>

\* self.stats["memory_updates"] += 1, the read
usm_load(t) ==
    /\ threads[t].pc = "load"
    /\ threads' = [ threads EXCEPT ![t].pc = "store", ![t].count = stats.memory_updates ]
    /\ UNCHANGED <<student_ids, is_active, rag_engine, student_trackers, stats,
                   start_time, end_time, files, ended, starts, ses_ret, callers>>

\* self.stats["memory_updates"] += 1, the write; return result
usm_store(t) ==
    LET c == threads[t]
    IN  /\ c.pc = "store"
        /\ stats' = [ stats EXCEPT !.memory_updates = c.count + 1 ]
        /\ threads' = [ threads EXCEPT ![t] =
              [ pc |-> "idle", done |-> Append(c.done, <<c.concept, c.score, c.student_id>>) ] ]
        /\ ses_ret' = [ op |-> "update_student_memory", student_id |-> c.student_id,
                        raised |-> "",
                        value |-> c.result[1] ]
        /\ UNCHANGED <<student_ids, is_active, rag_engine, student_trackers,
                       start_time, end_time, files, ended, starts, callers>>

(***************************************************************************)
(* query_knowledge and end_session entered by two threads at once.  Each   *)
(* step is one read or one write of the session's attributes; a search     *)
(* runs on the retriever object the thread reached, which end_session does *)
(* not change, and is one step.  The session this is run on holds one      *)
(* tracker, so end_session's save loop is one step.                        *)
(***************************************************************************)
\* query_knowledge is called: "if not self.is_active: raise RuntimeError"
qk_call(t, query, student_id) ==
    /\ threads[t].pc = "idle"
    /\ IF SessionNotStarted(is_active)
       THEN /\ ses_ret' = [ op |-> "query_knowledge", student_id |-> student_id,
                            raised |-> "RuntimeError" ]
            /\ UNCHANGED threads
       ELSE /\ threads' = [ threads EXCEPT ![t] =
                              [ pc |-> "load", done |-> @.done, op |-> "query_knowledge",
                                query |-> query, student_id |-> student_id,
                                admitted |-> rag_engine, served |-> None,
                                key |-> "queries", count |-> 0, results |-> None ] ]
            /\ UNCHANGED ses_ret
    /\ UNCHANGED <<student_ids, is_active, rag_engine, student_trackers, stats,
                   start_time, end_time, files, ended, starts, callers>>

\* self.stats["queries"] += 1 and self.stats["cache_hits"] += 1, the read
qk_load(t) ==
    /\ threads[t].pc = "load"
    /\ threads' = [ threads EXCEPT ![t].pc = "store", ![t].count = stats[threads[t].key] ]
    /\ UNCHANGED <<student_ids, is_active, rag_engine, student_trackers, stats,
                   start_time, end_time, files, ended, starts, ses_ret, callers>>

\* self.stats["queries"] += 1 and self.stats["cache_hits"] += 1, the write
qk_store(t) ==
    /\ threads[t].pc = "store"
    /\ stats' = [ stats EXCEPT ![threads[t].key] = threads[t].count + 1 ]
    /\ threads' = [ threads EXCEPT ![t].pc =
                      IF threads[t].key = "queries" THEN "test" ELSE "tracker" ]
    /\ UNCHANGED <<student_ids, is_active, rag_engine, student_trackers,
                   start_time, end_time, files, ended, starts, ses_ret, callers>>

\* "if self.rag_engine:", else results = {"vector_results": [], "graph_results": []}
qk_test(t) ==
    /\ threads[t].pc = "test"
    /\ threads' = [ threads EXCEPT ![t] =
                      IF rag_engine # None
                      THEN [ @ EXCEPT !.pc = "search" ]
                      ELSE [ @ EXCEPT !.pc = "tracker",
                                      !.results = Some([ vector_results |-> << >>,
                                                         graph_results |-> << >> ]) ] ]
    /\ UNCHANGED <<student_ids, is_active, rag_engine, student_trackers, stats,
                   start_time, end_time, files, ended, starts, ses_ret, callers>>

\* "results = self.rag_engine.hybrid_search(query, top_k=3)": self.rag_engine
\* is read again, and None has no hybrid_search
qk_search(t) ==
    LET c == threads[t]
    IN  /\ c.pc = "search"
        /\ IF rag_engine = None
           THEN /\ threads' = [ threads EXCEPT ![t] =
                                  [ pc |-> "idle", done |-> Append(c.done, <<"query_knowledge">>) ] ]
                /\ ses_ret' = [ op |-> "query_knowledge", student_id |-> c.student_id,
                                raised |-> "AttributeError",
                                admitted |-> c.admitted, served |-> None ]
           ELSE IF VectorSearchRaises(rag_engine[1], c.query, 3)
           THEN /\ threads' = [ threads EXCEPT ![t] =
                                  [ pc |-> "idle", done |-> Append(c.done, <<"query_knowledge">>) ] ]
                /\ ses_ret' = [ op |-> "query_knowledge", student_id |-> c.student_id,
                                raised |-> "IndexError",
                                admitted |-> c.admitted, served |-> rag_engine ]
           ELSE /\ \E results \in HybridSearch(rag_engine[1], c.query, 3) :
                      threads' = [ threads EXCEPT ![t] =
                                     [ c EXCEPT !.pc = "load", !.key = "cache_hits",
                                                !.served = rag_engine,
                                                !.results = Some(results) ] ]
                /\ UNCHANGED ses_ret
        /\ UNCHANGED <<student_ids, is_active, rag_engine, student_trackers, stats,
                       start_time, end_time, files, ended, starts, callers>>

\* tracker = self.student_trackers.get(student_id); progress =
\* tracker.get_learning_progress() if there is one; the dict is returned
qk_tracker(t) ==
    LET c == threads[t]
        resident == DictHas(student_trackers, c.student_id)
    IN  /\ c.pc = "tracker"
        /\ student_trackers' =
              IF resident
              THEN DictPut(student_trackers, c.student_id,
                           TrackerRefresh(DictGet(student_trackers, c.student_id), now))
              ELSE student_trackers
        /\ threads' = [ threads EXCEPT ![t] =
                          [ pc |-> "idle", done |-> Append(c.done, <<"query_knowledge">>) ] ]
        /\ ses_ret' = [ op |-> "query_knowledge", student_id |-> c.student_id, raised |-> "",
                        admitted |-> c.admitted, served |-> c.served,
                        value |-> [ query |-> c.query,
                                    rag_results |-> c.results[1],
                                    student_progress |->
                                        IF resident
                                        THEN Some(LearningProgress(
                                               DictGet(student_trackers, c.student_id).knowledge_nodes, now))
                                        ELSE None,
                                    from_cache |-> TRUE ] ]
        /\ UNCHANGED <<student_ids, is_active, rag_engine, stats,
                       start_time, end_time, files, ended, starts, callers>>

\* end_session is called: "if not self.is_active: return", else
\* self.end_time = datetime.now()
es_begin(t) ==
    /\ threads[t].pc = "idle"
    /\ IF ~is_active
       THEN /\ ses_ret' = [ op |-> "end_session", raised |-> "", value |-> None ]
            /\ UNCHANGED <<threads, end_time>>
       ELSE /\ end_time' = Some(now)
            /\ threads' = [ threads EXCEPT ![t] =
                              [ pc |-> "save", done |-> @.done, op |-> "end_session" ] ]
            /\ UNCHANGED ses_ret
    /\ UNCHANGED <<student_ids, is_active, rag_engine, student_trackers, stats,
                   start_time, files, ended, starts, callers>>

\* for student_id, tracker in self.student_trackers.items(): tracker.save_to_file(...)
es_save(t) ==
    /\ threads[t].pc = "save"
    /\ files' = SaveTrackers(files, student_trackers)
    /\ threads' = [ threads EXCEPT ![t].pc = "release" ]
    /\ UNCHANGED <<student_ids, is_active, rag_engine, student_trackers, stats,
                   start_time, end_time, ended, starts, ses_ret, callers>>

\* self.rag_engine = None
es_release(t) ==
    /\ threads[t].pc = "release"
    /\ rag_engine' = None
    /\ threads' = [ threads EXCEPT ![t].pc = "clear" ]
    /\ UNCHANGED <<student_ids, is_active, student_trackers, stats,
                   start_time, end_time, files, ended, starts, ses_ret, callers>>

\* self.student_trackers.clear()
es_clear(t) ==
    /\ threads[t].pc = "clear"
    /\ student_trackers' = << >>
    /\ threads' = [ threads EXCEPT ![t].pc = "deactivate" ]
    /\ UNCHANGED <<student_ids, is_active, rag_engine, stats,
                   start_time, end_time, files, ended, starts, ses_ret, callers>>

\* self.is_active = False, and the method returns
es_deactivate(t) ==
    /\ threads[t].pc = "deactivate"
    /\ is_active' = FALSE
    /\ ended' = TRUE
    /\ threads' = [ threads EXCEPT ![t] =
                      [ pc |-> "idle", done |-> Append(@.done, <<"end_session">>) ] ]
    /\ ses_ret' = [ op |-> "end_session", raised |-> "", value |-> None ]
    /\ UNCHANGED <<student_ids, rag_engine, student_trackers, stats,
                   start_time, end_time, files, starts, callers>>

(***************************************************************************)
(* Specifications.  Each drives one object and leaves the others as        *)
(* constructed.                                                            *)
(***************************************************************************)
ScenarioCorpus == << Chunk(CNN, "uses", pooling), Chunk(pooling, "reduces", dimension) >>
Corpora == { ScenarioCorpus, << Chunk(dimension, "uses", layer) >> }
SampleRates == {30, 100}     \* ingest_pdf's 0.3, the test's 1.0
HopChoices == {1, 2}
TopKs == {1, 3}
Queries == { <<"CNN">>, <<"what", "is", "pooling">>, <<"hello">> }

NumEdges(kg) == Cardinality(DOMAIN kg.edges)

\* ---- StudentMemoryTracker: record_quiz_result alone, every score (the
\* ---- SM-2 arithmetic never reads the clock)
MemInit ==
    /\ now = 0
    /\ TrackerInit(LoadedTrackers)
    /\ RagInit
    /\ SessionInit({ << >> }, { NoFile })

Sm2Next ==
    \E concept \in Concepts, score \in Scores :
        /\ TotalReviews(knowledge_nodes) < MaxReviews
        /\ record_quiz_result(concept, score)
        /\ UNCHANGED <<rag_vars, ses_vars>>

SpecSm2 == MemInit /\ [][Sm2Next]_vars

\* ---- StudentMemoryTracker: all its calls, the clock moving between them
MemNext ==
    \/ \E concept \in Concepts, score \in ReadScores :
           /\ TotalReviews(knowledge_nodes) < MaxReadReviews
           /\ record_quiz_result(concept, score)
           /\ UNCHANGED <<rag_vars, ses_vars>>
    \/ \E p \in ReviewParams : get_concepts_to_review(p[1], p[2]) /\ UNCHANGED <<rag_vars, ses_vars>>
    \/ get_mastered_concepts(MasteredThreshold) /\ UNCHANGED <<rag_vars, ses_vars>>
    \/ get_learning_progress /\ UNCHANGED <<rag_vars, ses_vars>>
    \/ Tick /\ UNCHANGED <<mem_vars, rag_vars, ses_vars>>
    \/ ClockSetBack /\ UNCHANGED <<mem_vars, rag_vars, ses_vars>>

SpecMemory == MemInit /\ [][MemNext]_vars

\* ---- GraphRAG: the knowledge graph, built triplet by triplet and searched
GraphInit ==
    /\ now = 0
    /\ TrackerInit({ << >> })
    /\ RagInit
    /\ SessionInit({ << >> }, { NoFile })

GraphNext ==
    \/ \E list \in { <<c>> : c \in ChunkPool } \cup { ScenarioCorpus }, rate \in SampleRates :
           /\ NumEdges(knowledge_graph) + Len(list) <= MaxEdges
           /\ build_knowledge_graph(list, rate)
           /\ UNCHANGED <<now, mem_vars, ses_vars>>
    \/ \E entity \in Entities, max_hops \in HopChoices :
           /\ graph_search(entity, max_hops)
           /\ UNCHANGED <<now, mem_vars, ses_vars>>

SpecGraph == GraphInit /\ [][GraphNext]_vars

\* ---- GraphRAG: a graph of more nodes than graph_search returns, searched
MaxWideEdges == 14

WideGraphNext ==
    \/ \E c \in WideChunks :
           /\ NumEdges(knowledge_graph) + Len(LlmTriplets(c.text)) <= MaxWideEdges
           /\ build_knowledge_graph(<<c>>, 100)
           /\ UNCHANGED <<now, mem_vars, ses_vars>>
    \/ \E entity \in WideEntities, max_hops \in HopChoices :
           /\ graph_search(entity, max_hops)
           /\ UNCHANGED <<now, mem_vars, ses_vars>>

SpecWideGraph == GraphInit /\ [][WideGraphNext]_vars

\* ---- GraphRAG: index and graph built from course material, and queried
RetrieverNext ==
    \/ \E list \in Corpora \cup { << >> } :
           /\ Len(index) + Len(list) <= MaxVectors
           /\ build_vector_index(list)
           /\ UNCHANGED <<now, mem_vars, ses_vars>>
    \/ \E list \in Corpora, rate \in SampleRates :
           /\ NumEdges(knowledge_graph) + Len(list) <= MaxEdges
           /\ build_knowledge_graph(list, rate)
           /\ UNCHANGED <<now, mem_vars, ses_vars>>
    \/ \E query \in Queries, top_k \in TopKs :
           /\ vector_search(query, top_k)
           /\ UNCHANGED <<now, mem_vars, ses_vars>>
    \/ \E query \in Queries, top_k \in TopKs :
           /\ hybrid_search(query, top_k)
           /\ UNCHANGED <<now, mem_vars, ses_vars>>

SpecRetriever == GraphInit /\ [][RetrieverNext]_vars

\* ---- CourseSession: started, served, ended, started again
SessionScores == {2, 5}
SessionQueries == { <<"CNN">>, <<"hello">> }

Init ==
    /\ now = 0
    /\ TrackerInit({ << >> })
    /\ RagInit
    /\ SessionInit(Rosters, StoredFiles)

Next ==
    \/ \E pdf_path \in PdfPaths :
           /\ starts < MaxStarts
           /\ start_session(pdf_path)
           /\ accepted' = IF is_active THEN accepted ELSE NoneAccepted
           /\ UNCHANGED <<now, mem_vars, rag_vars, callers, threads>>
    \/ end_session /\ UNCHANGED <<now, mem_vars, rag_vars, callers, threads, accepted>>
    \/ \E query \in SessionQueries, student_id \in Learners :
           /\ is_active => stats.queries < MaxQueries
           /\ query_knowledge(query, student_id)
           /\ UNCHANGED <<now, mem_vars, rag_vars, callers, threads, accepted>>
    \/ \E student_id \in Learners, concept \in Concepts, score \in SessionScores :
           /\ is_active => stats.memory_updates < MaxUpdates
           /\ update_student_memory(student_id, concept, score)
           /\ accepted' = IF ses_ret'.raised = ""
                          THEN [ accepted EXCEPT ![student_id] = Append(@, <<concept, score>>) ]
                          ELSE accepted
           /\ UNCHANGED <<now, mem_vars, rag_vars, callers, threads>>
    \/ get_class_statistics /\ UNCHANGED <<now, mem_vars, rag_vars, callers, threads, accepted>>
    \/ now < MaxSessionDays /\ Tick /\ UNCHANGED <<mem_vars, rag_vars, ses_vars>>

Spec == Init /\ [][Next]_vars

\* ---- CourseSession: update_student_memory called for two learners at once,
\* ---- on a session started without a corpus whose roster is the first learner
InterleavedInit ==
    /\ now = 0
    /\ TrackerInit({ << >> })
    /\ RagInit
    /\ student_ids = <<"s1">>
    /\ is_active = TRUE
    /\ rag_engine = Some(NewGraphRAG)
    /\ student_trackers = LoadTrackers(<< >>, <<"s1">>, [ s \in Learners |-> NoFile ], 1, 0)
    /\ stats = [ queries |-> 0, memory_updates |-> 0, cache_hits |-> 0 ]
    /\ start_time = Some(0)
    /\ end_time = None
    /\ files = [ s \in Learners |-> NoFile ]
    /\ ended = FALSE
    /\ starts = 1
    /\ ses_ret = [ op |-> "start_session", pdf_path |-> None, raised |-> "" ]
    /\ callers = [ s \in Learners |-> NoCaller ]
    /\ threads = [ t \in Threads |-> NoCall ]
    /\ accepted = NoneAccepted

InterleavedNext ==
    \/ \E student_id \in Learners, score \in SessionScores :
           /\ Len(callers[student_id].calls) < MaxCalls
           /\ um_call(student_id, "c1", score)
           /\ UNCHANGED <<now, mem_vars, rag_vars, threads, accepted>>
    \/ \E student_id \in Learners : um_get(student_id) /\ UNCHANGED <<now, mem_vars, rag_vars, threads, accepted>>
    \/ \E student_id \in Learners : um_admit(student_id) /\ UNCHANGED <<now, mem_vars, rag_vars, threads, accepted>>
    \/ \E student_id \in Learners : um_record(student_id) /\ UNCHANGED <<now, mem_vars, rag_vars, threads, accepted>>
    \/ \E student_id \in Learners : um_load(student_id) /\ UNCHANGED <<now, mem_vars, rag_vars, threads, accepted>>
    \/ \E student_id \in Learners : um_store(student_id) /\ UNCHANGED <<now, mem_vars, rag_vars, threads, accepted>>

SpecInterleaved == InterleavedInit /\ [][InterleavedNext]_vars

\* ---- CourseSession: update_student_memory called by two threads at once,
\* ---- for the roster's learner or for one not yet admitted
MaxThreadCalls == 1

SameLearnerNext ==
    \/ \E t \in Threads, student_id \in Learners, concept \in Concepts, score \in SessionScores :
           /\ Len(threads[t].done) < MaxThreadCalls
           /\ usm_call(t, student_id, concept, score)
           /\ UNCHANGED <<now, mem_vars, rag_vars, accepted>>
    \/ \E t \in Threads : usm_get(t) /\ UNCHANGED <<now, mem_vars, rag_vars, accepted>>
    \/ \E t \in Threads : usm_admit(t) /\ UNCHANGED <<now, mem_vars, rag_vars, accepted>>
    \/ \E t \in Threads : usm_test(t) /\ UNCHANGED <<now, mem_vars, rag_vars, accepted>>
    \/ \E t \in Threads : usm_new(t) /\ UNCHANGED <<now, mem_vars, rag_vars, accepted>>
    \/ \E t \in Threads : usm_review(t) /\ UNCHANGED <<now, mem_vars, rag_vars, accepted>>
    \/ \E t \in Threads : usm_load(t) /\ UNCHANGED <<now, mem_vars, rag_vars, accepted>>
    \/ \E t \in Threads : usm_store(t) /\ UNCHANGED <<now, mem_vars, rag_vars, accepted>>

SpecSameLearner == InterleavedInit /\ [][SameLearnerNext]_vars

\* ---- CourseSession: query_knowledge and end_session called by two threads
\* ---- at once, on a session started with the course PDF for a roster of one
InFlightInit ==
    /\ now = 0
    /\ TrackerInit({ << >> })
    /\ RagInit
    /\ student_ids = <<"s1">>
    /\ is_active = TRUE
    /\ rag_engine \in { Some(rag) : rag \in IngestPdf(NewGraphRAG, CourseCorpus) }
    /\ files \in { [ s \in Learners |-> IF s = "s1" THEN f ELSE NoFile ] :
                     f \in StoredFiles \ { Malformed } }
    /\ student_trackers = LoadTrackers(<< >>, <<"s1">>, files, 1, 0)
    /\ stats = [ queries |-> 0, memory_updates |-> 0, cache_hits |-> 0 ]
    /\ start_time = Some(0)
    /\ end_time = None
    /\ ended = FALSE
    /\ starts = 1
    /\ ses_ret = [ op |-> "start_session", pdf_path |-> Some("course.pdf"), raised |-> "" ]
    /\ callers = [ s \in Learners |-> NoCaller ]
    /\ threads = [ t \in Threads |-> NoCall ]
    /\ accepted = NoneAccepted

InFlightNext ==
    \/ \E t \in Threads, query \in SessionQueries, student_id \in Learners :
           /\ Len(threads[t].done) < MaxThreadCalls
           /\ qk_call(t, query, student_id)
           /\ UNCHANGED <<now, mem_vars, rag_vars, accepted>>
    \/ \E t \in Threads : qk_load(t) /\ UNCHANGED <<now, mem_vars, rag_vars, accepted>>
    \/ \E t \in Threads : qk_store(t) /\ UNCHANGED <<now, mem_vars, rag_vars, accepted>>
    \/ \E t \in Threads : qk_test(t) /\ UNCHANGED <<now, mem_vars, rag_vars, accepted>>
    \/ \E t \in Threads : qk_search(t) /\ UNCHANGED <<now, mem_vars, rag_vars, accepted>>
    \/ \E t \in Threads : qk_tracker(t) /\ UNCHANGED <<now, mem_vars, rag_vars, accepted>>
    \/ \E t \in Threads :
           /\ Len(threads[t].done) < MaxThreadCalls
           /\ es_begin(t)
           /\ UNCHANGED <<now, mem_vars, rag_vars, accepted>>
    \/ \E t \in Threads : es_save(t) /\ UNCHANGED <<now, mem_vars, rag_vars, accepted>>
    \/ \E t \in Threads : es_release(t) /\ UNCHANGED <<now, mem_vars, rag_vars, accepted>>
    \/ \E t \in Threads : es_clear(t) /\ UNCHANGED <<now, mem_vars, rag_vars, accepted>>
    \/ \E t \in Threads : es_deactivate(t) /\ UNCHANGED <<now, mem_vars, rag_vars, accepted>>

SpecInFlight == InFlightInit /\ [][InFlightNext]_vars

(***************************************************************************)
(* Claims on the spaced-repetition memory model.                           *)
(***************************************************************************)
Nodes == DictValues(knowledge_nodes)
Reviewed(node) == node.review_history # << >>
LastScore(node) == node.review_history[Len(node.review_history)].score

\* C5: after every record_quiz_result call, with any score in 0..5, the
\* concept's easiness_factor is at least 1.3.
C5_EasinessAtLeastMin ==
    \A i \in 1..Len(Nodes) : Reviewed(Nodes[i]) => Nodes[i].easiness_factor >= MinEF

\* two scores of 0 take 2.5 to 0.9 before the floor
C5_Witness ==
    \E i \in 1..Len(Nodes) :
        LET h == Nodes[i].review_history
        IN  /\ Len(h) >= 2
            /\ h[Len(h)].score = 0 /\ h[Len(h) - 1].score = 0
            /\ Nodes[i].easiness_factor = MinEF

\* C6: a record_quiz_result call with score < 3 leaves the concept with
\* repetitions = 0 and interval = 1, whatever they were before.
C6_FailureResets ==
    (mem_ret.op = "record_quiz_result" /\ mem_ret.score < 3) =>
        LET node == DictGet(knowledge_nodes, mem_ret.value.concept)
        IN  /\ node.repetitions = 0
            /\ node.interval = 1
            /\ mem_ret.value.interval_days = 1

\* a failure after two successes: repetitions was 2 and interval 6
C6_Witness ==
    /\ mem_ret.op = "record_quiz_result" /\ mem_ret.score < 3
    /\ LET h == DictGet(knowledge_nodes, mem_ret.value.concept).review_history
       IN  /\ Len(h) >= 3
           /\ h[Len(h) - 1].score >= 3 /\ h[Len(h) - 1].interval = 6

\* C7: from a concept with no prior state, three consecutive calls with
\* score >= 3 give the intervals 1, 6, round(6 x easiness), easiness being the
\* easiness_factor the first two calls left.
C7_FirstThreeIntervals ==
    \A i \in 1..Len(knowledge_nodes) :
        LET h == knowledge_nodes[i][2].review_history
        IN  (/\ knowledge_nodes[i][1] \in created
             /\ Len(h) >= 3
             /\ \A j \in 1..3 : h[j].score >= 3)
            => /\ h[1].interval = 1
               /\ h[2].interval = 6
               /\ h[3].interval =
                    Round(6 * Max(MinEF, Max(MinEF, InitEF + EFDelta(h[1].score))
                                         + EFDelta(h[2].score)), 100)

\* three successes on a fresh concept whose third score moves the easiness
C7_Witness ==
    \E i \in 1..Len(knowledge_nodes) :
        LET h == knowledge_nodes[i][2].review_history
        IN  /\ knowledge_nodes[i][1] \in created
            /\ Len(h) = 3
            /\ h[1].score = 3 /\ h[2].score = 3 /\ h[3].score = 5
            /\ h[3].interval = 13

\* C8: every memory strength a read produces lies in [0, 1], whatever the
\* elapsed time, and a concept whose last_review is unset reads as 0.0.
C8_StrengthInUnitRange ==
    /\ \A i \in 1..Len(Nodes) :
          /\ Nodes[i].memory_strength \in 0..One
          /\ (Nodes[i].last_review = None /\ mem_ret.op # "none")
                => Nodes[i].memory_strength = 0
    /\ mem_ret.op = "record_quiz_result" => mem_ret.value.new_strength \in 0..One
    /\ mem_ret.op = "get_concepts_to_review" =>
          \A j \in 1..Len(mem_ret.value) :
              /\ mem_ret.value[j].strength \in 0..One
              /\ mem_ret.value[j].days_since_review = 999 => mem_ret.value[j].strength = 0
    /\ mem_ret.op = "get_learning_progress" =>
          /\ mem_ret.value.average_strength[1] >= 0
          /\ mem_ret.value.average_strength[1] <= One * mem_ret.value.average_strength[2]

\* a read that lists a never-reviewed concept while another concept's last
\* review lies in the future (the clock was set back), where exp(...) > 1
C8_Witness ==
    /\ mem_ret.op = "get_concepts_to_review"
    /\ \E j \in 1..Len(mem_ret.value) :
          mem_ret.value[j].days_since_review = 999 /\ mem_ret.value[j].strength = 0
    /\ \E i \in 1..Len(Nodes) :
          /\ Nodes[i].last_review # None
          /\ Nodes[i].last_review[1] > now
          /\ Nodes[i].memory_strength = One

(***************************************************************************)
(* Claims on the knowledge graph and the retriever.                        *)
(***************************************************************************)
\* shortest distance from entity to target in the current graph, -1 if none
GraphDistance(entity, target) ==
    LET walks == AllWalks(knowledge_graph, entity)
    IN  IF HasPath(walks, target) THEN Distance(walks, target) ELSE 0 - 1

\* C3: hybrid_search on a retriever whose index and graph are both empty
\* returns vector_results = [] and graph_results = [] and does not raise;
\* vector_search on an empty index returns an empty list.
C3_EmptyRetrieverReturnsEmpty ==
    (index = << >> /\ knowledge_graph = EmptyGraph) =>
        /\ rag_ret.op = "hybrid_search" =>
              /\ rag_ret.raised = ""
              /\ rag_ret.value.vector_results = << >>
              /\ rag_ret.value.graph_results = << >>
        /\ rag_ret.op = "vector_search" =>
              /\ rag_ret.raised = ""
              /\ rag_ret.value = << >>

\* C9: graph_search(start, maxHops) never returns an entry whose hops
\* exceeds maxHops.
C9_HopsWithinMax ==
    rag_ret.op = "graph_search" =>
        \A j \in 1..Len(rag_ret.value) :
            /\ rag_ret.value[j].hops <= rag_ret.max_hops
            /\ Len(rag_ret.value[j].path) - 1 = rag_ret.value[j].hops

\* a search with maxHops = 2 from the head of a three-edge chain: the node
\* three hops away is reachable and left out
C9_Witness ==
    /\ rag_ret.op = "graph_search" /\ rag_ret.max_hops = 2
    /\ Len(rag_ret.value) = 2
    /\ \E target \in SeqSet(knowledge_graph.nodes) :
          GraphDistance(rag_ret.entity, target) = 3

\* the graph holds exactly (CNN, uses, pooling) and (pooling, reduces, dimension)
ScenarioGraph ==
    /\ SeqSet(knowledge_graph.nodes) = {CNN, pooling, dimension}
    /\ DOMAIN knowledge_graph.edges = { <<CNN, pooling>>, <<pooling, dimension>> }
    /\ knowledge_graph.edges[<<CNN, pooling>>].relation = "uses"
    /\ knowledge_graph.edges[<<pooling, dimension>>].relation = "reduces"

PoolingEntry ==
    [ entity |-> pooling, path |-> <<CNN, pooling>>, relations |-> <<"uses">>, hops |-> 1 ]
DimensionEntry ==
    [ entity |-> dimension, path |-> <<CNN, pooling, dimension>>,
      relations |-> <<"uses", "reduces">>, hops |-> 2 ]

\* C10: on the graph built from exactly (CNN, uses, pooling) and
\* (pooling, reduces, dimension), graph_search("CNN", 1) returns exactly the
\* entry for pooling (hops 1, relations [uses]), and graph_search("CNN", 2)
\* returns that entry followed by the entry for dimension (hops 2, path
\* CNN, pooling, dimension, relations [uses, reduces]).
C10_ScenarioSearch ==
    (ScenarioGraph /\ rag_ret.op = "graph_search" /\ rag_ret.entity = CNN) =>
        /\ rag_ret.max_hops = 1 => rag_ret.value = << PoolingEntry >>
        /\ rag_ret.max_hops = 2 => rag_ret.value = << PoolingEntry, DimensionEntry >>

\* the two-hop search on the scenario graph whose nodes were inserted with
\* dimension before pooling
C10_Witness ==
    /\ ScenarioGraph /\ rag_ret.op = "graph_search" /\ rag_ret.entity = CNN
    /\ rag_ret.max_hops = 2
    /\ knowledge_graph.nodes[1] = pooling /\ knowledge_graph.nodes[2] = dimension
    /\ Len(rag_ret.value) = 2

(***************************************************************************)
(* Claims on the session lifecycle.                                        *)
(***************************************************************************)
\* C1: a session is one-shot: once end_session has completed, is_active is
\* never true again on the same instance.
C1_OneShot == ended => ~is_active

GuardedOps == {"query_knowledge", "update_student_memory", "get_class_statistics"}

\* C2: while the session is inactive, query_knowledge, update_student_memory
\* and get_class_statistics fail with an error and leave stats.queries,
\* stats.memory_updates, stats.cache_hits and the set of trackers unchanged.
C2_InactiveCallsRejected ==
    [][ (~is_active /\ ses_ret' # ses_ret /\ ses_ret'.op \in GuardedOps) =>
            /\ ses_ret'.raised = "RuntimeError"
            /\ stats' = stats
            /\ student_trackers' = student_trackers
            /\ ~is_active' ]_vars

\* an update rejected after end_session, the counters of the ended session
\* still standing
C2_Witness ==
    /\ ended /\ ~is_active
    /\ ses_ret.op = "update_student_memory" /\ ses_ret.raised = "RuntimeError"
    /\ stats.memory_updates = 1 /\ stats.queries = 1
    /\ student_trackers = << >>

\* C4: in every reachable state stats.cache_hits = stats.queries, also for a
\* session started without a corpus or whose retrieval returns nothing.
C4_CacheHitsEqualQueries == stats.cache_hits = stats.queries

(***************************************************************************)
(* Claims on the class statistics.                                         *)
(***************************************************************************)
RatEq(a, b) == a[1] * b[2] = b[1] * a[2]

RECURSIVE SetSeq(_)
SetSeq(S) == IF S = {} THEN << >> ELSE LET x == CHOOSE y \in S : TRUE IN <<x>> \o SetSeq(S \ {x})

\* the strengths the resident learners hold for a concept, read now
HeldStrengths(concept) ==
    LET holders == Filter(student_trackers,
                          { i \in 1..Len(student_trackers) :
                              DictHas(student_trackers[i][2].knowledge_nodes, concept) })
    IN  [ i \in 1..Len(holders) |->
            CalculateMemoryStrength(DictGet(holders[i][2].knowledge_nodes, concept), now) ]

ResidentConcepts == { c \in Concepts : HeldStrengths(c) # << >> }
MeanStrength(concept) == << SumSeq(HeldStrengths(concept)), Len(HeldStrengths(concept)) >>

\* C11: get_class_statistics on an active session with a resident learner
\* who has a recorded concept returns a result, and reports for each concept
\* the mean of the per-learner strengths; a concept is in weak_concepts
\* exactly when that mean is strictly below 0.4.
C11_ClassAveragePerConcept ==
    (is_active /\ ses_ret.op = "get_class_statistics" /\ ResidentConcepts # {}) =>
        /\ ses_ret.raised = ""
        /\ ses_ret.value.total_concepts = Cardinality(ResidentConcepts)
        /\ \A c \in ResidentConcepts :
              RatLess(MeanStrength(c), <<WeakClassAverage, 1>>) <=>
                 \E j \in 1..Len(ses_ret.value.weak_concepts) :
                     /\ ses_ret.value.weak_concepts[j].concept = c
                     /\ RatEq(ses_ret.value.weak_concepts[j].class_average, MeanStrength(c))

\* C12: the class_average get_class_statistics returns is the unweighted mean
\* of the per-concept class averages, 0.0 when no concept exists, and
\* weak_concepts is ordered by ascending class average.
C12_OverallAverageUnweighted ==
    (is_active /\ ses_ret.op = "get_class_statistics") =>
        /\ ses_ret.raised = ""
        /\ LET held == SetSeq(ResidentConcepts)
               means == [ i \in 1..Len(held) |->
                            << MeanStrength(held[i])[1], MeanStrength(held[i])[2] * Len(held) >> ]
           IN  IF held = << >> THEN ses_ret.value.class_average[1] = 0
               ELSE RatEq(ses_ret.value.class_average, RatSum(means))
        /\ \A j \in 1..(Len(ses_ret.value.weak_concepts) - 1) :
              ~RatLess(ses_ret.value.weak_concepts[j + 1].class_average,
                       ses_ret.value.weak_concepts[j].class_average)

(***************************************************************************)
(* Claims on persistence and the end of a session.                         *)
(***************************************************************************)
\* the step is an end_session call on an active session
EndStep == is_active /\ ~is_active'
\* the step is a start_session call that succeeded
StartedStep == starts' = starts + 1 /\ ses_ret'.raised = ""

\* a tracker's concepts hold, field by field, what a learner file records
NodesMatchFile(nodes, saved) ==
    /\ Len(nodes) = Len(saved)
    /\ \A i \in 1..Len(nodes) :
          /\ nodes[i][1] = saved[i][1]
          /\ nodes[i][2].easiness_factor = saved[i][2].easiness_factor
          /\ nodes[i][2].interval = saved[i][2].interval
          /\ nodes[i][2].repetitions = saved[i][2].repetitions
          /\ nodes[i][2].last_review = saved[i][2].last_review
          /\ nodes[i][2].next_review = saved[i][2].next_review
          /\ nodes[i][2].review_history = saved[i][2].review_history
          /\ nodes[i][2].memory_strength = saved[i][2].memory_strength

\* C13: round trip: a tracker persisted by end_session and loaded by a later
\* start_session whose roster holds the learner has, for every concept, the
\* easiness_factor, interval, repetitions, last_review, next_review,
\* review_history and stored memory_strength the old session held at
\* end_session, no concept added or dropped.  (end_session writes what the
\* session holds; nothing else writes a learner file; start_session reads
\* back what the file records.)
C13_RoundTrip ==
    [][ /\ EndStep =>
              \A i \in 1..Len(student_trackers) :
                  /\ files'[student_trackers[i][1]].kind = "json"
                  /\ NodesMatchFile(student_trackers[i][2].knowledge_nodes,
                                    files'[student_trackers[i][1]].data.knowledge_nodes)
        /\ ~EndStep => files' = files
        /\ StartedStep =>
              \A i \in 1..Len(student_ids) :
                  files[student_ids[i]].kind = "json" =>
                      /\ DictHas(student_trackers', student_ids[i])
                      /\ NodesMatchFile(DictGet(student_trackers', student_ids[i]).knowledge_nodes,
                                        files[student_ids[i]].data.knowledge_nodes) ]_vars

\* a session restarted after its end, holding again for the roster learner
\* the concept it recorded before the end, while the clock has moved on
C13_Witness ==
    /\ ended /\ is_active /\ ses_ret.op = "start_session"
    /\ stats.memory_updates = 1
    /\ now > end_time[1]
    /\ DictHas(student_trackers, "s1")
    /\ LET nodes == DictGet(student_trackers, "s1").knowledge_nodes
       IN  /\ DictHas(nodes, "c2")
           /\ DictGet(nodes, "c2").review_history # << >>
           /\ DictGet(nodes, "c2").memory_strength > 0
           /\ NodesMatchFile(nodes, files["s1"].data.knowledge_nodes)

\* the step is an end_session call made while the session is active
EndCall == is_active /\ ses_ret'.op = "end_session"

\* C14: end_session on an active session writes one file for every tracker
\* resident at that moment, roster learners and lazily admitted ones, before
\* anything is released; afterwards rag_engine is None, student_trackers is
\* empty and is_active is false.
C14_EndSavesThenReleases ==
    [][ EndCall =>
            /\ \A i \in 1..Len(student_trackers) :
                  files'[student_trackers[i][1]] = SavedFile(student_trackers[i][2])
            /\ \A s \in Learners \ DictKeySet(student_trackers) : files'[s] = files[s]
            /\ rag_engine' = None
            /\ student_trackers' = << >>
            /\ ~is_active' ]_vars

\* an ended session that held the roster learner and a lazily admitted one:
\* both files are written, everything is released
C14_Witness ==
    /\ ended /\ ~is_active /\ ses_ret.op = "end_session"
    /\ student_ids = <<"s1">>
    /\ files["s1"].kind = "json" /\ files["s2"].kind = "json"
    /\ files["s2"].data.knowledge_nodes # << >>
    /\ rag_engine = None /\ student_trackers = << >>

\* C15: end_session on an active session returns to its caller a statistics
\* record with durationMinutes, queries, memoryUpdates and cacheHits, the three
\* counters equal to the session's stats at the time of the call.
C15_EndReturnsStatistics ==
    [][ EndCall =>
            /\ ses_ret'.raised = ""
            /\ ses_ret'.value # None
            /\ ses_ret'.value[1].queries = stats.queries
            /\ ses_ret'.value[1].memoryUpdates = stats.memory_updates
            /\ ses_ret'.value[1].cacheHits = stats.cache_hits
            /\ ses_ret'.value[1].durationMinutes >= 0 ]_vars

(***************************************************************************)
(* Claims on admission and on starting a session.                          *)
(***************************************************************************)
\* the step is a call of the named operation for the named learner
CallFor(op, student_id) ==
    /\ ses_ret' # ses_ret
    /\ ses_ret'.op = op
    /\ ses_ret'.student_id = student_id

\* C16: update_student_memory on an active session for a learner without a
\* resident tracker never fails: afterwards a tracker for that id exists, the
\* result is recorded in it and stats.memory_updates is one more;
\* query_knowledge for such a learner succeeds too, with student_progress
\* None, and admits nobody.
C16_UnknownLearnerServed ==
    [][ \A s \in Learners :
          (is_active /\ ~DictHas(student_trackers, s)) =>
             /\ CallFor("update_student_memory", s) =>
                   /\ ses_ret'.raised = ""
                   /\ DictHas(student_trackers', s)
                   /\ DictHas(DictGet(student_trackers', s).knowledge_nodes, ses_ret'.value.concept)
                   /\ ses_ret'.value.total_reviews = 1
                   /\ stats'.memory_updates = stats.memory_updates + 1
             /\ CallFor("query_knowledge", s) =>
                   /\ ses_ret'.raised = ""
                   /\ ses_ret'.value.student_progress = None
                   /\ DictKeySet(student_trackers') = DictKeySet(student_trackers) ]_vars

IsPrefix(a, b) == Len(a) <= Len(b) /\ SubSeq(b, 1, Len(a)) = a

\* every concept of the older record is in the newer one, with its review
\* history carried on
HistoryKept(older, newer) ==
    \A i \in 1..Len(older) :
        /\ DictHas(newer, older[i][1])
        /\ IsPrefix(older[i][2].review_history, DictGet(newer, older[i][1]).review_history)

\* C17: a blank learner record is created only for a learner without a
\* persisted file: a tracker that becomes resident (at start_session or by
\* lazy admission) while a file for its id exists carries that file's
\* history, so end_session never overwrites a learner file with a record
\* that lacks the file's prior history.
C17_BlankOnlyWithoutFile ==
    [][ \A s \in Learners :
          /\ (/\ ~DictHas(student_trackers, s)
              /\ DictHas(student_trackers', s)
              /\ files[s].kind # "absent")
             => /\ files[s].kind = "json"
                /\ HistoryKept(files[s].data.knowledge_nodes,
                               DictGet(student_trackers', s).knowledge_nodes)
          /\ (EndCall /\ files[s].kind = "json")
             => HistoryKept(files[s].data.knowledge_nodes, files'[s].data.knowledge_nodes) ]_vars

\* the step is a start_session call
StartCall == starts' = starts + 1

\* the roster holds a learner whose file is not JSON
RosterFileMalformed == \E i \in 1..Len(student_ids) : files[student_ids[i]] = Malformed

\* the path exists and yields no chunk: building the index raises
CorpusUnusable(pdf_path) ==
    /\ pdf_path # None
    /\ pdf_path[1] \in DOMAIN PdfFiles
    /\ PdfFiles[pdf_path[1]] = << >>

\* C18: a start_session that fails because ingestion raises or because a
\* roster learner's file is malformed surfaces the error and leaves
\* is_active false; is_active becomes true only after the retriever is built
\* and a tracker is loaded or created for every learner in student_ids.
C18_FailedStartStaysInactive ==
    [][ StartCall =>
            /\ (RosterFileMalformed \/ CorpusUnusable(ses_ret'.pdf_path)) => ses_ret'.raised # ""
            /\ ses_ret'.raised # "" => is_active' = is_active
            /\ (~is_active /\ is_active') =>
                  /\ ses_ret'.raised = ""
                  /\ rag_engine' # None
                  /\ \A i \in 1..Len(student_ids) : DictHas(student_trackers', student_ids[i]) ]_vars

\* a start that built the retriever and then met the roster learner's
\* malformed file: the error is returned, the session is not active
C18_Witness ==
    /\ ses_ret.op = "start_session" /\ ses_ret.raised = "JSONDecodeError"
    /\ ses_ret.pdf_path = Some("course.pdf")
    /\ ~is_active /\ ~ended
    /\ rag_engine # None /\ rag_engine[1].index # << >>
    /\ student_trackers = << >>

\* no corpus path, or a path that does not exist
CorpusAbsent(pdf_path) == pdf_path = None \/ pdf_path[1] \notin DOMAIN PdfFiles

\* the session is active on an empty retriever, a tracker resident for every
\* learner of the roster
StartedOnEmptyRetriever ==
    /\ ses_ret'.raised = ""
    /\ is_active'
    /\ rag_engine' # None
    /\ rag_engine'[1].index = << >>
    /\ rag_engine'[1].knowledge_graph = EmptyGraph
    /\ \A i \in 1..Len(student_ids) : DictHas(student_trackers', student_ids[i])

\* C19: start_session with no corpus path, or with a path that does not
\* exist, succeeds: afterwards is_active is true, rag_engine is a present
\* retriever with an empty index and an empty graph, and student_trackers
\* holds a tracker for every id in student_ids.
C19_StartWithoutCorpus ==
    [][ (StartCall /\ CorpusAbsent(ses_ret'.pdf_path)) => StartedOnEmptyRetriever ]_vars

\* C19, amended: the same, provided no roster learner's persisted file is
\* malformed (such a file makes the start fail whatever the corpus).
C19_StartWithoutCorpusReadableFiles ==
    [][ (StartCall /\ CorpusAbsent(ses_ret'.pdf_path) /\ ~RosterFileMalformed)
            => StartedOnEmptyRetriever ]_vars

\* a session started on a path that does not exist: active, the retriever
\* empty, the roster learner's stored record loaded
C19_Witness ==
    /\ ses_ret.op = "start_session" /\ ses_ret.raised = ""
    /\ ses_ret.pdf_path = Some("missing.pdf")
    /\ is_active
    /\ rag_engine # None /\ rag_engine[1].index = << >>
    /\ student_ids = <<"s1">>
    /\ DictHas(student_trackers, "s1")
    /\ DictGet(student_trackers, "s1").knowledge_nodes # << >>

(***************************************************************************)
(* Claims on concurrent callers.                                           *)
(***************************************************************************)
\* the concepts a learner holds after the given calls ran alone, in order
RECURSIVE Replay(_)
Replay(calls) ==
    IF calls = << >> THEN << >>
    ELSE RecordQuizResult(Replay(SubSeq(calls, 1, Len(calls) - 1)),
                          calls[Len(calls)][1], calls[Len(calls)][2], now)

CompletedCalls == SumSeq([ i \in 1..Len(SetSeq(Learners)) |-> Len(callers[SetSeq(Learners)[i]].calls) ])

\* C20: when update_student_memory calls for two distinct learners are
\* interleaved read by read and write by write, once all calls have returned
\* each learner's tracker is what that learner's calls alone would have left,
\* and stats.memory_updates is the number of completed calls.
C20_InterleavedUpdatesIndependent ==
    (\A s \in Learners : callers[s].pc = "idle") =>
        /\ \A s \in Learners :
              callers[s].calls # << >> =>
                  /\ DictHas(student_trackers, s)
                  /\ DictGet(student_trackers, s).knowledge_nodes = Replay(callers[s].calls)
        /\ stats.memory_updates = CompletedCalls

\* every way of running the calls of a and the calls of b one after the
\* other, each thread's own calls in their order
RECURSIVE Merges(_, _)
Merges(a, b) ==
    IF a = << >> THEN { b }
    ELSE IF b = << >> THEN { a }
    ELSE { <<Head(a)>> \o m : m \in Merges(Tail(a), b) }
         \cup { <<Head(b)>> \o m : m \in Merges(a, Tail(b)) }

\* the calls a thread has returned from that were for learner s
DoneFor(t, s) == SelectSeq(threads[t].done, LAMBDA c : c[3] = s)

AllReturned == \A t \in Threads : threads[t].pc = "idle"

\* C21: when two threads' update_student_memory calls are interleaved
\* statement by statement, once all calls have returned every learner's
\* tracker holds what the calls for that learner leave when run one after
\* the other in some order: no recorded result and no history entry is lost.
C21_SameLearnerSerialized ==
    AllReturned =>
        \A s \in Learners :
            (DoneFor("t1", s) # << >> \/ DoneFor("t2", s) # << >>) =>
                /\ DictHas(student_trackers, s)
                /\ DictGet(student_trackers, s).knowledge_nodes
                       \in { Replay(m) : m \in Merges(DoneFor("t1", s), DoneFor("t2", s)) }

\* the last call to return was a query_knowledge that passed the ACTIVE check
AdmittedQueryReturned ==
    ses_ret.op = "query_knowledge" /\ ses_ret.raised # "RuntimeError"

\* C22: a query_knowledge call that passed the ACTIVE check returns without
\* error and was served by the retriever that was resident when it was
\* admitted, however its steps interleave with those of an end_session
\* running in another thread.
C22_InFlightQueryServed ==
    AdmittedQueryReturned =>
        /\ ses_ret.raised = ""
        /\ ses_ret.served = ses_ret.admitted

(***************************************************************************)
(* Claims on the build and query phases.                                   *)
(***************************************************************************)
\* C23: build and query phases are disjoint: no step taken while is_active
\* is true writes to the vector index or the knowledge graph of the
\* session's retriever; the retriever stays as it is until end_session
\* releases it, whatever sequence of start_session, query_knowledge and
\* end_session calls is made, start_session on an ACTIVE session included.
C23_NoBuildWhileActive ==
    [][ is_active => (rag_engine' = rag_engine \/ rag_engine' = None) ]_vars

(***************************************************************************)
(* Claims on the vector index.                                             *)
(***************************************************************************)
VectorSearchReturned == rag_ret.op = "vector_search" /\ rag_ret.raised = ""

\* result entry r is chunk number p of self.chunks
IsChunk(r, p) ==
    /\ r.text = chunks[p].text
    /\ r.page = chunks[p].page
    /\ r.source = chunks[p].source

\* C24: vector_search(query, k) on an index of n chunks returns at most
\* min(k, n) results, each a distinct indexed chunk, by ascending distance
\* and, at equal distance, in insertion order; a neighbour the index reports
\* as missing (label -1, when k > n) gives no result entry.
C24_AtMostMinResults ==
    VectorSearchReturned =>
        LET value == rag_ret.value
        IN  /\ Len(value) <= Min(rag_ret.top_k, Len(index))
            /\ \A i \in 1..Len(value) : value[i].score # FltMax
            /\ \E f \in [ 1..Len(value) -> 1..Len(chunks) ] :
                  /\ \A i \in 1..Len(value) : IsChunk(value[i], f[i])
                  /\ \A i, j \in 1..Len(value) :
                        i < j => /\ f[i] # f[j]
                                 /\ value[i].score <= value[j].score
                                 /\ value[i].score = value[j].score => f[i] < f[j]

\* C25: build_vector_index(chunks) replaces the index contents: after the
\* call, whatever the index held before, it stores len(chunks) vectors and
\* the vector at position i is the embedding of chunks[i].
C25_BuildReplacesIndex ==
    (rag_ret.op = "build_vector_index" /\ rag_ret.raised = "") =>
        /\ Len(index) = Len(chunks)
        /\ \A i \in 1..Len(index) : i <= Len(chunks) => index[i] = Embed(chunks[i].text)

(***************************************************************************)
(* Claims on the knowledge graph.                                          *)
(***************************************************************************)
\* the nodes within h directed edges of start
RECURSIVE Ball(_, _)
Ball(start, h) ==
    IF h = 0 THEN { start }
    ELSE LET inner == Ball(start, h - 1)
         IN  inner \cup { v \in SeqSet(knowledge_graph.nodes) :
                            \E u \in inner : <<u, v>> \in DOMAIN knowledge_graph.edges }

\* the least number of edges from start to a node of Ball(start, h)
HopsTo(start, target, h) == CHOOSE n \in 0..h : target \in Ball(start, n) /\
                                \A m \in 0..h : target \in Ball(start, m) => n <= m

GraphSearchReturned == rag_ret.op = "graph_search" /\ rag_ret.raised = ""

\* C26: graph_search(start, maxHops) returns an empty list when start is not
\* a node of the graph; otherwise one entry per node other than start within
\* maxHops directed edges, in ascending order of hops, cut to the first 10:
\* a node that is left out is at least as far as every node that is listed.
C26_NearestTenReachable ==
    GraphSearchReturned =>
        LET value == rag_ret.value
            start == rag_ret.entity
            reach == Ball(start, rag_ret.max_hops) \ { start }
            listed == { value[i].entity : i \in 1..Len(value) }
        IN  IF start \notin SeqSet(knowledge_graph.nodes) THEN value = << >>
            ELSE /\ Len(value) = Min(Cardinality(reach), GraphLimit)
                 /\ Cardinality(listed) = Len(value)
                 /\ listed \subseteq reach
                 /\ \A i \in 1..Len(value) :
                       value[i].hops = HopsTo(start, value[i].entity, rag_ret.max_hops)
                 /\ \A i, j \in 1..Len(value) : i < j => value[i].hops <= value[j].hops
                 /\ \A n \in reach \ listed : \A i \in 1..Len(value) :
                       value[i].hops <= HopsTo(start, n, rag_ret.max_hops)

\* a search from the hub over two hops after b was inserted before ten of
\* the hub's eleven neighbours: twelve nodes are in reach, ten are returned
C26_Witness ==
    /\ GraphSearchReturned /\ rag_ret.entity = <<"hub">> /\ rag_ret.max_hops = 2
    /\ Cardinality(Ball(<<"hub">>, 2)) > GraphLimit + 2
    /\ Len(rag_ret.value) = GraphLimit
    /\ \E i \in 1..Len(knowledge_graph.nodes) :
          /\ knowledge_graph.nodes[i] = <<"b">>
          /\ i < Len(knowledge_graph.nodes) - 2

\* a search for an entity the graph does not hold, the graph not empty
C26_WitnessAbsent ==
    /\ GraphSearchReturned
    /\ knowledge_graph.nodes # << >>
    /\ rag_ret.entity \notin SeqSet(knowledge_graph.nodes)

(***************************************************************************)
(* Claims on the hybrid search.                                            *)
(***************************************************************************)
HybridSearchReturned == rag_ret.op = "hybrid_search" /\ rag_ret.raised = ""

\* the graph nodes, in node order, whose label is a substring of the query
\* or, where there is a top vector result, of its text
Candidates(query, vector_results) ==
    Filter(knowledge_graph.nodes,
           { i \in 1..Len(knowledge_graph.nodes) :
               \/ IsSubstring(knowledge_graph.nodes[i], query)
               \/ /\ vector_results # << >>
                  /\ IsSubstring(knowledge_graph.nodes[i], vector_results[1].text) })

\* C27: in hybrid_search the candidate entities are the graph nodes whose
\* label is a substring of the query or of the top vector result's text, a
\* node named in the query being a candidate also when the vector search
\* returned nothing; the graph results are those of the first 3 candidates.
C27_QueryEntitiesAreCandidates ==
    HybridSearchReturned =>
        rag_ret.value.graph_results
            \in { Take(g, GraphLimit) :
                    g \in GraphResults(knowledge_graph,
                            Take(Candidates(rag_ret.query, rag_ret.value.vector_results), 3)) }

\* C28: the graph_results list hybrid_search returns has at most 10 entries,
\* every entry has hops <= 2, and the list is in ascending order of hops,
\* also when it merges the results of two or three candidate entities.
C28_GraphResultsHopSorted ==
    HybridSearchReturned =>
        LET g == rag_ret.value.graph_results
        IN  /\ Len(g) <= GraphLimit
            /\ \A i \in 1..Len(g) : g[i].hops <= 2
            /\ \A i, j \in 1..Len(g) : i < j => g[i].hops <= g[j].hops

(***************************************************************************)
(* Claims on building the knowledge graph.                                 *)
(***************************************************************************)
BuildReturned == rag_ret.op = "build_knowledge_graph" /\ rag_ret.raised = ""

\* the triples the last build added, in order, each with its chunk's page:
\* those the LLM gave for the sampled chunks whose extraction did not fail
RECURSIVE AddedTriples(_, _)
AddedTriples(sampled, failed) ==
    IF sampled = << >> THEN << >>
    ELSE LET n == Len(sampled)
             t == IF n \in failed THEN << >> ELSE LlmTriplets(sampled[n].text)
         IN  AddedTriples(SubSeq(sampled, 1, n - 1), failed)
             \o [ i \in 1..Len(t) |-> << t[i][1], t[i][2], t[i][3], sampled[n].page >> ]

Added == AddedTriples(rag_ret.sampled, rag_ret.failed)

\* triple k of Added is the last one added for its (head, tail) pair
LastForPair(k) ==
    \A j \in (k + 1)..Len(Added) : <<Added[j][1], Added[j][3]>> # <<Added[k][1], Added[k][3]>>

\* C29: adding a triple whose (head, tail) pair already has an edge
\* overwrites that edge's relation and source reference (last write wins):
\* the graph holds one edge per ordered pair, re-adding a pair adds no edge,
\* and graph_search reports the relation added last for the edge.
C29_LastWriteWins ==
    BuildReturned =>
        /\ DOMAIN knowledge_graph.edges =
              DOMAIN rag_ret.before.edges
                 \cup { <<Added[k][1], Added[k][3]>> : k \in 1..Len(Added) }
        /\ \A e \in DOMAIN rag_ret.before.edges :
              (\A k \in 1..Len(Added) : <<Added[k][1], Added[k][3]>> # e) =>
                  knowledge_graph.edges[e] = rag_ret.before.edges[e]
        /\ \A k \in 1..Len(Added) :
              LastForPair(k) =>
                  /\ knowledge_graph.edges[<<Added[k][1], Added[k][3]>>]
                        = [ relation |-> Added[k][2], source_page |-> Added[k][4] ]
                  /\ \A found \in GraphSearch(knowledge_graph, Added[k][1], 1) :
                        \E i \in 1..Len(found) :
                            /\ found[i].entity = Added[k][3]
                            /\ found[i].relations = << Added[k][2] >>

\* a build that added a triple for a pair whose edge carried another relation
C29_Witness ==
    /\ BuildReturned
    /\ \E k \in 1..Len(Added) :
          /\ <<Added[k][1], Added[k][3]>> \in DOMAIN rag_ret.before.edges
          /\ rag_ret.before.edges[<<Added[k][1], Added[k][3]>>].relation # Added[k][2]
          /\ NumEdges(knowledge_graph) = NumEdges(rag_ret.before)

\* the (head, tail) pairs the LLM's answer for a chunk states
PairsOf(chunk) ==
    { << LlmTriplets(chunk.text)[i][1], LlmTriplets(chunk.text)[i][3] >> :
        i \in 1..Len(LlmTriplets(chunk.text)) }

\* C30: during build_knowledge_graph a failure of the triplet extractor on
\* one chunk contributes no edge for that chunk and does not end the build:
\* the triples of every other sampled chunk are added, before and after the
\* failure, and the build returns normally.
C30_ExtractionFailureSkipsChunk ==
    rag_ret.op = "build_knowledge_graph" =>
        LET sampled == rag_ret.sampled
            done == (1..Len(sampled)) \ rag_ret.failed
        IN  /\ rag_ret.raised = ""
            /\ \A n \in done : PairsOf(sampled[n]) \subseteq DOMAIN knowledge_graph.edges
            /\ \A e \in DOMAIN knowledge_graph.edges \ DOMAIN rag_ret.before.edges :
                  \E n \in done : e \in PairsOf(sampled[n])
            /\ done = {} => knowledge_graph = rag_ret.before

\* a build whose first sampled chunk failed and whose second was added: the
\* graph has the second chunk's edge and not the first's
C30_Witness ==
    /\ rag_ret.op = "build_knowledge_graph"
    /\ Len(rag_ret.sampled) = 2 /\ rag_ret.failed = {1}
    /\ PairsOf(rag_ret.sampled[2]) \subseteq DOMAIN knowledge_graph.edges
    /\ PairsOf(rag_ret.sampled[2]) \cap DOMAIN rag_ret.before.edges = {}
    /\ PairsOf(rag_ret.sampled[1]) \cap DOMAIN knowledge_graph.edges = {}

(***************************************************************************)
(* Claims on what one record_quiz_result call writes.                      *)
(***************************************************************************)
\* the step is a record_quiz_result call on the tracker
RecordStep ==
    mem_ret'.op = "record_quiz_result" /\ knowledge_nodes' # knowledge_nodes

\* the review_history the concept had before the call
HistoryBefore(concept) ==
    IF DictHas(knowledge_nodes, concept)
    THEN DictGet(knowledge_nodes, concept).review_history ELSE << >>

\* C31: each record_quiz_result call sets last_review to the current time
\* and next_review to last_review plus the interval that call computed, and
\* appends exactly one review_history entry with that call's score and new
\* interval; the returned total_reviews is one more than before the call,
\* hence the number of calls made for the concept.
C31_OneEntryPerCall ==
    [][ RecordStep =>
          LET concept == mem_ret'.value.concept
              node == DictGet(knowledge_nodes', concept)
              h == node.review_history
          IN  /\ node.last_review = Some(now)
              /\ node.next_review = Some(now + node.interval)
              /\ h = Append(HistoryBefore(concept),
                            [ time |-> now, score |-> mem_ret'.score,
                              strength |-> node.memory_strength,
                              interval |-> node.interval ])
              /\ mem_ret'.value.total_reviews = Len(HistoryBefore(concept)) + 1
              /\ mem_ret'.value.interval_days = node.interval
              /\ mem_ret'.value.next_review = node.next_review ]_vars

\* the second call for a concept created in this run, on a later day: the
\* interval goes from 1 to 6 and the next review is six days on
C31_Witness ==
    /\ mem_ret.op = "record_quiz_result"
    /\ mem_ret.value.concept \in created
    /\ mem_ret.value.total_reviews = 2
    /\ now > 0
    /\ LET node == DictGet(knowledge_nodes, mem_ret.value.concept)
       IN  /\ node.last_review = Some(now)
           /\ node.review_history[1].interval = 1
           /\ node.interval = 6
           /\ node.next_review = Some(now + 6)

(***************************************************************************)
(* Claims on the review list.                                              *)
(***************************************************************************)
\* the step ends in the state a get_concepts_to_review call left
ReviewListStep == mem_ret'.op = "get_concepts_to_review" /\ now' = now

\* entry a may stand before entry b: higher priority, or the same priority
\* and at least as many days since the last review
MayPrecede(a, b) ==
    \/ a.priority > b.priority
    \/ a.priority = b.priority /\ a.days_since_review >= b.days_since_review

\* what the list says of a concept that is eligible at the time of the call
DueEntry(i) ==
    LET node == knowledge_nodes[i][2]
        strength == CalculateMemoryStrength(node, now)
    IN  [ concept |-> knowledge_nodes[i][1],
          strength |-> strength,
          priority |-> One - strength,
          days_since_review |->
              IF node.last_review = None THEN 999 ELSE now - node.last_review[1] ]

\* C32: get_concepts_to_review(threshold, limit) returns at most limit
\* entries; a concept is eligible exactly when its strength recomputed at
\* call time is below threshold or the current time is at or past its
\* next_review; the entries returned are the eligible concepts of highest
\* priority (1 - strength), in non-increasing priority order, equal
\* priorities by days since the last review, descending.
C32_ReviewListIsTopEligible ==
    [][ ReviewListStep =>
          LET value == mem_ret'.value
              eligible == { i \in 1..Len(knowledge_nodes) :
                              \/ DueEntry(i).strength < mem_ret'.threshold
                              \/ /\ knowledge_nodes[i][2].next_review # None
                                 /\ now >= knowledge_nodes[i][2].next_review[1] }
              listed == { i \in eligible :
                            \E k \in 1..Len(value) : value[k].concept = knowledge_nodes[i][1] }
          IN  /\ Len(value) = Min(mem_ret'.limit, Cardinality(eligible))
              /\ Cardinality(listed) = Len(value)
              /\ \A k \in 1..Len(value) :
                    \E i \in eligible :
                        /\ value[k].concept = DueEntry(i).concept
                        /\ value[k].strength = DueEntry(i).strength
                        /\ value[k].priority = DueEntry(i).priority
                        /\ value[k].days_since_review = DueEntry(i).days_since_review
              /\ \A k, l \in 1..Len(value) : k < l => MayPrecede(value[k], value[l])
              /\ \A i \in eligible \ listed : \A k \in 1..Len(value) :
                    MayPrecede(value[k], DueEntry(i)) ]_vars

\* a list of two concepts of equal priority, the one reviewed longer ago
\* first although it was inserted second
C32_Witness ==
    /\ mem_ret.op = "get_concepts_to_review"
    /\ Len(mem_ret.value) = 2
    /\ mem_ret.value[1].priority = mem_ret.value[2].priority
    /\ mem_ret.value[1].days_since_review > mem_ret.value[2].days_since_review
    /\ Len(knowledge_nodes) = 2
    /\ knowledge_nodes[2][1] = mem_ret.value[1].concept

\* a list cut to its limit: two concepts are due, one is returned
C32_WitnessCut ==
    /\ mem_ret.op = "get_concepts_to_review"
    /\ mem_ret.limit = 1 /\ Len(mem_ret.value) = 1
    /\ \A i \in 1..Len(knowledge_nodes) :
          CalculateMemoryStrength(knowledge_nodes[i][2], now) < mem_ret.threshold
    /\ Len(knowledge_nodes) = 2

(***************************************************************************)
(* Claims on the ranges of the SM-2 state.                                 *)
(***************************************************************************)
\* C33: after every sequence of record_quiz_result calls with scores in
\* 0..5, every concept's interval is an integer >= 1 and its repetitions an
\* integer >= 0, so the stability interval x easiness_factor by which the
\* strength computation divides is never zero.
C33_IntervalAtLeastOne ==
    \A i \in 1..Len(Nodes) :
        /\ Nodes[i].interval \in Nat /\ Nodes[i].interval >= 1
        /\ Nodes[i].repetitions \in Nat
        /\ Nodes[i].interval * Nodes[i].easiness_factor > 0

\* the two ends: a concept failed after two successes, back at interval 1
\* with the lowest easiness a single 0 leaves, and a concept at its third
\* success in a row
C33_Witness ==
    \/ \E i \in 1..Len(Nodes) :
          /\ Len(Nodes[i].review_history) = 3
          /\ Nodes[i].review_history[2].interval = 6
          /\ Nodes[i].review_history[3].score = 0
          /\ Nodes[i].interval = 1 /\ Nodes[i].repetitions = 0
    \/ \E i \in 1..Len(Nodes) :
          Nodes[i].repetitions = 3 /\ Nodes[i].interval > 6

\* the scores of a concept's history with value q
ScoreCount(node, q) ==
    Cardinality({ j \in 1..Len(node.review_history) : node.review_history[j].score = q })

RECURSIVE TrailingSuccesses(_)
TrailingSuccesses(h) ==
    IF h = << >> THEN 0
    ELSE IF h[Len(h)].score >= 3 THEN 1 + TrailingSuccesses(SubSeq(h, 1, Len(h) - 1))
    ELSE 0

\* C36: for a concept created by record_quiz_result, after any sequence of
\* calls with scores in 0..5, repetitions is the number of calls with
\* score >= 3 in a row at the end of the concept's scores, 0 if the last
\* score was below 3.
C36_RepetitionsCountTrailingSuccesses ==
    \A i \in 1..Len(knowledge_nodes) :
        knowledge_nodes[i][1] \in created =>
            knowledge_nodes[i][2].repetitions
                = TrailingSuccesses(knowledge_nodes[i][2].review_history)

\* a fresh concept failed once and then passed twice: repetitions 2 of 3 calls
C36_Witness ==
    \E i \in 1..Len(knowledge_nodes) :
        LET h == knowledge_nodes[i][2].review_history
        IN  /\ knowledge_nodes[i][1] \in created
            /\ Len(h) = 3
            /\ h[1].score < 3 /\ h[2].score >= 3 /\ h[3].score >= 3
            /\ knowledge_nodes[i][2].repetitions = 2

(***************************************************************************)
(* Claims on what a session call leaves alone.                             *)
(***************************************************************************)
\* a step in which update_student_memory recorded a result
UpdateStep ==
    /\ ses_ret'.op = "update_student_memory" /\ ses_ret'.raised = ""
    /\ student_trackers' # student_trackers

\* the SM-2 state of a node, without the strength every read recomputes
Sm2State(node) ==
    << node.easiness_factor, node.interval, node.repetitions,
       node.last_review, node.next_review, node.review_history >>

\* C35: record_quiz_result(concept, score) on one learner's tracker changes
\* only that concept's state in that tracker, and the tracker's
\* last_activity: every other concept of the learner and every concept of
\* every other learner resident in the session keeps its easiness_factor,
\* interval, repetitions, last_review, next_review and review_history, and no
\* tracker or concept appears other than the one recorded.
C35_UpdateTouchesOneConcept ==
    [][ UpdateStep =>
          LET student_id == ses_ret'.student_id
              concept == ses_ret'.value.concept
          IN  /\ DictKeySet(student_trackers') = DictKeySet(student_trackers) \cup {student_id}
              /\ \A s \in DictKeySet(student_trackers) :
                    LET before == DictGet(student_trackers, s)
                        after == DictGet(student_trackers', s)
                    IN  /\ s # student_id => after = before
                        /\ after.student_id = before.student_id
                        /\ after.created_at = before.created_at
                        /\ DictKeySet(after.knowledge_nodes)
                              = DictKeySet(before.knowledge_nodes)
                                  \cup (IF s = student_id THEN {concept} ELSE {})
                        /\ \A c \in DictKeySet(before.knowledge_nodes) :
                              (s # student_id \/ c # concept) =>
                                  Sm2State(DictGet(after.knowledge_nodes, c))
                                      = Sm2State(DictGet(before.knowledge_nodes, c))
    ]_vars

\* a result recorded for c2 of a learner whose tracker came from a file
\* holding a reviewed c1
C35_Witness ==
    /\ ses_ret.op = "update_student_memory" /\ ses_ret.raised = ""
    /\ ses_ret.student_id = "s1" /\ ses_ret.value.concept = "c2"
    /\ DictHas(student_trackers, "s1")
    /\ LET nodes == DictGet(student_trackers, "s1").knowledge_nodes
       IN  /\ DictKeySet(nodes) = {"c1", "c2"}
           /\ Len(DictGet(nodes, "c1").review_history) = 1
           /\ Len(DictGet(nodes, "c2").review_history) = 1

\* a result recorded for a learner outside the roster while the roster
\* learner's tracker is resident
C35_WitnessOtherLearner ==
    /\ ses_ret.op = "update_student_memory" /\ ses_ret.raised = ""
    /\ ses_ret.student_id = "s2"
    /\ DictKeySet(student_trackers) = {"s1", "s2"}
    /\ DictGet(student_trackers, "s1").knowledge_nodes # << >>

(***************************************************************************)
(* Claims on what a session keeps of the results it accepted.              *)
(***************************************************************************)
\* the scores a sequence of <<concept, score>> holds for one concept, in order
RECURSIVE ScoresFor(_, _)
ScoresFor(list, concept) ==
    IF list = << >> THEN << >>
    ELSE LET rest == ScoresFor(SubSeq(list, 1, Len(list) - 1), concept)
             last == list[Len(list)]
         IN  IF last[1] = concept THEN Append(rest, last[2]) ELSE rest

\* the scores of the review_history a learner's file holds for a concept
PersistedScores(student_id, concept) ==
    IF files[student_id].kind = "json"
       /\ DictHas(files[student_id].data.knowledge_nodes, concept)
    THEN LET h == DictGet(files[student_id].data.knowledge_nodes, concept).review_history
         IN  [ i \in 1..Len(h) |-> h[i].score ]
    ELSE << >>

\* s ends with t
EndsWith(s, t) ==
    Len(t) <= Len(s) /\ SubSeq(s, Len(s) - Len(t) + 1, Len(s)) = t

\* C37: no accepted quiz result is lost: whatever the sequence of
\* start_session, update_student_memory and end_session calls on a session
\* (start_session again while ACTIVE included), once end_session has
\* completed the file of each learner holds, for each concept, one
\* review_history entry for every update_student_memory call that returned
\* for that learner and concept during the session, in the order of the calls.
C37_NoAcceptedResultLost ==
    (ended /\ ~is_active) =>
        \A s \in Learners, c \in Concepts :
            EndsWith(PersistedScores(s, c), ScoresFor(accepted[s], c))

\* C38: end_session on an INACTIVE session (never started, or already ended)
\* is a no-op: it writes no learner file and leaves is_active, rag_engine,
\* student_trackers, stats, start_time and end_time as they were.
C38_EndWhileInactiveIsNoOp ==
    [][ (~is_active /\ ses_ret'.op = "end_session") =>
           UNCHANGED <<files, is_active, rag_engine, student_trackers, stats,
                       start_time, end_time>>
    ]_vars

\* end_session answered on a session that was never started
C38_Witness ==
    /\ ses_ret.op = "end_session"
    /\ starts = 0 /\ ~ended /\ ~is_active

\* end_session answered on a session whose only start failed
C38_WitnessFailedStart ==
    /\ ses_ret.op = "end_session"
    /\ starts = 1 /\ ~ended /\ ~is_active

\* C39: whenever is_active is false the session holds no resident
\* resources: rag_engine is None and student_trackers is empty; a
\* start_session that fails part-way leaves no retriever and no partly
\* loaded trackers behind.
C39_InactiveHoldsNothing ==
    ~is_active => (rag_engine = None /\ student_trackers = << >>)

(***************************************************************************)
(* Claims on the shape of a graph search entry.                            *)
(***************************************************************************)
\* C40: every entry graph_search(start, maxHops) returns is well formed:
\* its path begins with start and ends with its entity, every consecutive
\* pair of path nodes is a directed edge of the graph, relations holds
\* hops = len(path) - 1 labels, the labels of those edges in order, hops is
\* the shortest directed distance from start to the entity, and no entity
\* has two entries.
C40_EntriesWellFormed ==
    GraphSearchReturned =>
        LET value == rag_ret.value
            start == rag_ret.entity
            edges == knowledge_graph.edges
        IN  /\ \A i \in 1..Len(value) :
                  LET e == value[i]
                      n == Len(e.path)
                  IN  /\ n >= 2
                      /\ e.path[1] = start /\ e.path[n] = e.entity
                      /\ \A k \in 1..(n - 1) : <<e.path[k], e.path[k + 1]>> \in DOMAIN edges
                      /\ e.hops = n - 1 /\ Len(e.relations) = e.hops
                      /\ \A k \in 1..(n - 1) :
                            e.relations[k] = edges[<<e.path[k], e.path[k + 1]>>].relation
                      /\ e.entity \in Ball(start, e.hops)
                      /\ e.entity \notin Ball(start, e.hops - 1)
            /\ \A i, j \in 1..Len(value) : i # j => value[i].entity # value[j].entity

\* an entity one edge from start that a walk of two edges reaches as well,
\* listed with the one-edge path
C40_Witness ==
    /\ GraphSearchReturned
    /\ \E i \in 1..Len(rag_ret.value) : \E u \in SeqSet(knowledge_graph.nodes) :
          /\ rag_ret.value[i].hops = 1
          /\ u \notin { rag_ret.entity, rag_ret.value[i].entity }
          /\ <<rag_ret.entity, u>> \in DOMAIN knowledge_graph.edges
          /\ <<u, rag_ret.value[i].entity>> \in DOMAIN knowledge_graph.edges
          /\ rag_ret.value[i].path = << rag_ret.entity, rag_ret.value[i].entity >>
=============================================================================
